---- MODULE Spec2Model ----
(***************************************************************************)
(* Incremental climate cache: the SQLite store (climate_cache.py) and the  *)
(* gap-detecting fetch orchestrator (msc_client.py).                       *)
(*                                                                         *)
(* Conventions of the model                                                *)
(*  - an optional value (Python None / SQL NULL) is a sequence of length   *)
(*    0 or 1: None == <<>>, Some(v) == <<v>>;                              *)
(*  - a Python str is a sequence of one-character strings;                 *)
(*  - a datetime.date is a triple <<year, month, day>>;                    *)
(*  - a float measurement is an integer number of hundredths, so that      *)
(*    23.45 is 2345 and the scaled (x10) integer of the store is 234/235.  *)
(***************************************************************************)
EXTENDS Integers, Sequences, FiniteSets, TLC

\* ------------------------------------------------------------------------
\* Bounds of the model
\* ------------------------------------------------------------------------
\* calendar year in which "today" lies
BaseYear == 2020
\* "today" lies between January FirstDay and January LastDay of BaseYear
FirstDay == 4
LastDay == 5
\* highest value the AUTOINCREMENT sequence of the stations table may reach
MaxKey == 2
\* server-side page size of the remote API
PageSize == 2
\* request-log entries that direct log_station_request calls may add
MaxLog == 1
\* entries the request log may hold for log_station_request to be called again
\* (SpecLog)
MaxRelog == 2
\* largest magnitude, in hundredths, of the measurements whose rounding is
\* examined (SpecScale)
ScaleMax == 60
\* longest list handed to calculate_trendline (SpecTrend)
MaxPoints == 3
\* largest numberMatched an arbitrary server reports (SpecPages)
MaxMatched == 3

\* the gap resolver is exercised on December 31 of the year before BaseYear
\* up to January GapLast of BaseYear
GapLast == 2

\* msc_client.py: the page limit the client asks for
MAX_LIMIT == 10000

None == <<>>
Some(v) == <<v>>

\* ------------------------------------------------------------------------
\* Strings
\* ------------------------------------------------------------------------
Digits == <<"0", "1", "2", "3", "4", "5", "6", "7", "8", "9">>

IsDigit(c) == \E i \in 1..10 : Digits[i] = c

DigitVal(c) == (CHOOSE i \in 1..10 : Digits[i] = c) - 1

\* code points of the characters that occur in the model's strings
OrdTable ==
    [c \in {" ", "-", ".", "/", "0", "1", "2", "3", "4", "5", "6", "7", "8", "9",
            ":", "T", "x"} |->
       CASE c = " " -> 32
         [] c = "-" -> 45
         [] c = "." -> 46
         [] c = "/" -> 47
         [] IsDigit(c) -> 48 + DigitVal(c)
         [] c = ":" -> 58
         [] c = "T" -> 84
         [] OTHER -> 120] @@ <<>>

Ord(c) == OrdTable[c]

RECURSIVE ComputeStrLe(_, _)
\* Python's a <= b on two str values (lexicographic by code point)
ComputeStrLe(a, b) ==
    IF a = <<>> THEN TRUE
    ELSE IF b = <<>> THEN FALSE
    ELSE IF Ord(Head(a)) < Ord(Head(b)) THEN TRUE
    ELSE IF Ord(Head(a)) > Ord(Head(b)) THEN FALSE
    ELSE ComputeStrLe(Tail(a), Tail(b))

RECURSIVE SplitFirst(_, _)
\* s.split(sep)[0]: the part of s before the first sep
SplitFirst(s, sep) ==
    IF s = <<>> \/ Head(s) = sep THEN <<>>
    ELSE <<Head(s)>> \o SplitFirst(Tail(s), sep)

RECURSIVE Remove(_, _)
\* s.replace(ch, "")
Remove(s, ch) ==
    IF s = <<>> THEN <<>>
    ELSE IF Head(s) = ch THEN Remove(Tail(s), ch)
    ELSE <<Head(s)>> \o Remove(Tail(s), ch)

RECURSIVE ParseInt(_)
\* int(s) of a string of decimal digits
ParseInt(s) ==
    IF s = <<>> THEN 0
    ELSE ParseInt(SubSeq(s, 1, Len(s) - 1)) * 10 + DigitVal(s[Len(s)])

RECURSIVE IntToStr(_)
\* str(n) of a non-negative integer
IntToStr(n) ==
    IF n < 10 THEN <<Digits[n + 1]>>
    ELSE IntToStr(n \div 10) \o <<Digits[(n % 10) + 1]>>

RECURSIVE ZeroPad(_, _)
\* format(n, "0<w>d")
ZeroPad(n, w) ==
    IF Len(IntToStr(n)) >= w THEN IntToStr(n)
    ELSE <<"0">> \o (IF w = 1 THEN <<>> ELSE ZeroPad(n, w - 1))

\* ------------------------------------------------------------------------
\* datetime.date
\* ------------------------------------------------------------------------
IsLeap(y) == (y % 4 = 0) /\ ((y % 100 # 0) \/ (y % 400 = 0))

DaysInMonth(y, m) ==
    IF m = 2 THEN (IF IsLeap(y) THEN 29 ELSE 28)
    ELSE IF m \in {4, 6, 9, 11} THEN 30 ELSE 31

RECURSIVE DaysBeforeMonth(_, _)
DaysBeforeMonth(y, m) ==
    IF m = 1 THEN 0 ELSE DaysBeforeMonth(y, m - 1) + DaysInMonth(y, m - 1)

\* the dates and date strings the model works with; the conversions below
\* are tabulated over them once and computed for every other argument
DateUniverse ==
    {<<BaseYear - 1, 12, d>> : d \in 28..31} \cup {<<BaseYear, 12, 31>>}
      \cup {<<BaseYear, 1, d>> : d \in 1..(LastDay + 2)} \cup {<<BaseYear + 1, 1, 1>>}

\* date.toordinal(): days since 0001-01-01, that day being 1
ComputeOrdinal(dt) ==
    LET y == dt[1] - 1
    IN  y * 365 + (y \div 4) - (y \div 100) + (y \div 400)
          + DaysBeforeMonth(dt[1], dt[2]) + dt[3]

OrdinalTable == [dt \in DateUniverse |-> ComputeOrdinal(dt)] @@ <<>>

ToOrdinal(dt) == IF dt \in DOMAIN OrdinalTable THEN OrdinalTable[dt] ELSE ComputeOrdinal(dt)

\* dt + datetime.date.resolution
NextDay(dt) ==
    IF dt[3] < DaysInMonth(dt[1], dt[2]) THEN <<dt[1], dt[2], dt[3] + 1>>
    ELSE IF dt[2] < 12 THEN <<dt[1], dt[2] + 1, 1>>
    ELSE <<dt[1] + 1, 1, 1>>

DateLe(a, b) == ToOrdinal(a) <= ToOrdinal(b)

\* date.isoformat()
ComputeIsoformat(dt) ==
    ZeroPad(dt[1], 4) \o <<"-">> \o ZeroPad(dt[2], 2) \o <<"-">> \o ZeroPad(dt[3], 2)

IsoformatTable == [dt \in DateUniverse |-> ComputeIsoformat(dt)] @@ <<>>

isoformat(dt) ==
    IF dt \in DOMAIN IsoformatTable THEN IsoformatTable[dt] ELSE ComputeIsoformat(dt)

IsoStrings == {ComputeIsoformat(dt) : dt \in DateUniverse}

StrLeTable == [p \in IsoStrings \X IsoStrings |-> ComputeStrLe(p[1], p[2])] @@ <<>>

StrLe(a, b) ==
    IF <<a, b>> \in DOMAIN StrLeTable THEN StrLeTable[<<a, b>>] ELSE ComputeStrLe(a, b)

\* datetime.date.fromisoformat() of a "YYYY-MM-DD" string
ComputeFromIso(s) ==
    <<ParseInt(SubSeq(s, 1, 4)), ParseInt(SubSeq(s, 6, 7)), ParseInt(SubSeq(s, 9, 10))>>

FromIsoTable == [s \in IsoStrings |-> ComputeFromIso(s)] @@ <<>>

fromisoformat(s) == IF s \in DOMAIN FromIsoTable THEN FromIsoTable[s] ELSE ComputeFromIso(s)

\* ------------------------------------------------------------------------
\* climate_cache.py: date conversions
\* ------------------------------------------------------------------------
TimeSuffix == <<" ", "0", "0", ":", "0", "0", ":", "0", "0">>

\* ClimateCache._date_to_int; date_str is an optional str
ComputeDateToInt(date_str) ==
    IF date_str = None \/ date_str = Some(<<>>) THEN None
    ELSE LET clean0 == SplitFirst(SplitFirst(date_str[1], " "), "T")
             clean == Remove(Remove(Remove(clean0, "-"), "/"), ".")
         IN  IF Len(clean) < 8 THEN None
             ELSE IF \A i \in 1..8 : IsDigit(clean[i])
                  THEN Some(ParseInt(SubSeq(clean, 1, 8)))
                  ELSE None

\* a date written with slashes, and one written without zero padding
SlashFormat(dt) ==
    ZeroPad(dt[1], 4) \o <<"/">> \o ZeroPad(dt[2], 2) \o <<"/">> \o ZeroPad(dt[3], 2)

ShortFormat(dt) == ZeroPad(dt[1], 4) \o <<"-">> \o IntToStr(dt[2]) \o <<"-">> \o IntToStr(dt[3])

DateToIntTable ==
    [ds \in {Some(s) : s \in IsoStrings} \cup {Some(s \o TimeSuffix) : s \in IsoStrings}
            \cup {Some(SlashFormat(dt)) : dt \in DateUniverse}
            \cup {Some(ShortFormat(dt)) : dt \in DateUniverse}
       |-> ComputeDateToInt(ds)] @@ <<>>

date_to_int(date_str) ==
    IF date_str \in DOMAIN DateToIntTable THEN DateToIntTable[date_str]
    ELSE ComputeDateToInt(date_str)

\* ClimateCache._int_to_date_components; date_int is an optional integer.
\* The result is <<d_str, y, m, d>>, each optional.
ComputeDateComponents(date_int) ==
    IF date_int = None THEN <<None, None, None, None>>
    ELSE LET s == IntToStr(date_int[1])
         IN  IF Len(s) # 8 THEN <<None, None, None, None>>
             ELSE LET y == ParseInt(SubSeq(s, 1, 4))
                      m == ParseInt(SubSeq(s, 5, 6))
                      d == ParseInt(SubSeq(s, 7, 8))
                  IN  <<Some(ZeroPad(y, 4) \o <<"-">> \o ZeroPad(m, 2)
                               \o <<"-">> \o ZeroPad(d, 2)),
                        Some(y), Some(m), Some(d)>>

DateComponentsTable ==
    [di \in {Some(dt[1] * 10000 + dt[2] * 100 + dt[3]) : dt \in DateUniverse}
       |-> ComputeDateComponents(di)] @@ <<>>

int_to_date_components(date_int) ==
    IF date_int \in DOMAIN DateComponentsTable THEN DateComponentsTable[date_int]
    ELSE ComputeDateComponents(date_int)

\* ------------------------------------------------------------------------
\* climate_cache.py: the three tables
\* ------------------------------------------------------------------------
VARIABLES
    stations,          \* rows [key, station_id, name, latitude, longitude]
    station_seq,       \* AUTOINCREMENT sequence of stations.key
    daily_data,        \* rows [station_key, date, temp_mean, temp_min, temp_max, precip],
                       \* kept in primary-key order (WITHOUT ROWID)
    station_requests   \* rows [station_key, start_date, end_date, status], in insertion order

\* ClimateCache._get_station_key: the optional key of station_id
get_station_key(st, station_id) ==
    IF \E i \in 1..Len(st) : st[i].station_id = station_id
    THEN Some(st[CHOOSE i \in 1..Len(st) : st[i].station_id = station_id].key)
    ELSE None

\* mutant: a plain INSERT OR IGNORE, a known station keeps its old columns
UpsertStationKeepOld(db, row) ==
    LET st == db[1]
        k == db[2] + 1
    IN  IF \E i \in 1..Len(st) : st[i].station_id = row.id
        THEN <<st, k>>
        ELSE <<Append(st, [key |-> k, station_id |-> row.id, name |-> row.name,
                           latitude |-> row.latitude, longitude |-> row.longitude]), k>>

\* one INSERT ... ON CONFLICT(station_id) DO UPDATE of save_stations;
\* db is <<stations, station_seq>>
UpsertStation(db, row) ==
    LET st == db[1]
        k == db[2] + 1
    IN  IF \E i \in 1..Len(st) : st[i].station_id = row.id
        THEN <<[i \in 1..Len(st) |->
                  IF st[i].station_id = row.id
                  THEN [st[i] EXCEPT !.name = row.name,
                                     !.latitude = row.latitude,
                                     !.longitude = row.longitude]
                  ELSE st[i]], k>>
        ELSE <<Append(st, [key |-> k, station_id |-> row.id, name |-> row.name,
                           latitude |-> row.latitude, longitude |-> row.longitude]), k>>

RECURSIVE save_stations(_, _)
\* ClimateCache.save_stations: db after the rows of df were upserted in order
save_stations(db, df) ==
    IF df = <<>> THEN db
    ELSE save_stations(UpsertStation(db, Head(df)), Tail(df))

\* round(x / 10) for an integer x, ties to the even neighbour (Python round)
RoundTenth(x) ==
    LET q == x \div 10
        r == x % 10
    IN  IF r < 5 THEN q
        ELSE IF r > 5 THEN q + 1
        ELSE IF q % 2 = 0 THEN q ELSE q + 1

\* mutant: a measurement is tested for truth, so 0.0 counts as absent
ScaleValFalsyAbsent(val) ==
    IF val = None \/ val = Some(0) THEN None ELSE Some(RoundTenth(val[1]))

\* int(round(v * 10)) of an optional measurement given in hundredths
scale_val(val) == IF val = None THEN None ELSE Some(RoundTenth(val[1]))

\* mutant: the stored integer is divided by 100.0
UnscaleValByHundred(val) == IF val = None THEN None ELSE Some(val[1])

\* stored / 10.0 of an optional scaled integer, in hundredths again
unscale_val(val) == IF val = None THEN None ELSE Some(val[1] * 10)

\* the tuple save_daily builds for one DataFrame row of a station with key s_key
RowToInsert(s_key, row) ==
    [station_key |-> s_key,
     date |-> date_to_int(row.date),
     temp_mean |-> scale_val(row.temp_mean),
     temp_min |-> scale_val(row.temp_min),
     temp_max |-> scale_val(row.temp_max),
     precip |-> scale_val(row.precip)]

PkLess(a, b) ==
    \/ a.station_key < b.station_key
    \/ a.station_key = b.station_key /\ a.date < b.date

\* mutant: the conflict target is the station alone
SamePkStationOnly(a, b) == a.station_key = b.station_key

SamePk(a, b) == a.station_key = b.station_key /\ a.date = b.date

\* mutant: ON CONFLICT DO NOTHING
UpsertDailyKeepOld(dd, r) ==
    IF \E i \in 1..Len(dd) : SamePk(dd[i], r) THEN dd
    ELSE LET n == Cardinality({i \in 1..Len(dd) : PkLess(dd[i], r)})
         IN  SubSeq(dd, 1, n) \o <<r>> \o SubSeq(dd, n + 1, Len(dd))

\* mutant: a plain INSERT into a table without the primary key
UpsertDailyAppend(dd, r) == Append(dd, r)

\* one INSERT ... ON CONFLICT(station_key, date) DO UPDATE into daily_data;
\* r.date is an integer here
UpsertDaily(dd, r) ==
    IF \E i \in 1..Len(dd) : SamePk(dd[i], r)
    THEN [i \in 1..Len(dd) |-> IF SamePk(dd[i], r) THEN r ELSE dd[i]]
    ELSE LET n == Cardinality({i \in 1..Len(dd) : PkLess(dd[i], r)})
         IN  SubSeq(dd, 1, n) \o <<r>> \o SubSeq(dd, n + 1, Len(dd))

RECURSIVE InsertAll(_, _)
\* executemany of the upsert over already converted rows
InsertAll(dd, rows) ==
    IF rows = <<>> THEN dd
    ELSE InsertAll(UpsertDaily(dd, [Head(rows) EXCEPT !.date = Head(rows).date[1]]),
                   Tail(rows))

\* mutant: the group loop stops at the first station without a key
RowsToInsertStopAtUnknown(st, df) ==
    LET conv[i \in 0..Len(df)] ==
          IF i = 0 THEN <<>>
          ELSE LET s_key == get_station_key(st, df[i].station_id)
               IN  IF \E j \in 1..i : get_station_key(st, df[j].station_id) = None
                   THEN conv[i - 1]
                   ELSE Append(conv[i - 1], RowToInsert(s_key[1], df[i]))
    IN  conv[Len(df)]

\* the rows save_daily hands to executemany: those of the stations that have a key
RowsToInsert(st, df) ==
    LET conv[i \in 0..Len(df)] ==
          IF i = 0 THEN <<>>
          ELSE LET s_key == get_station_key(st, df[i].station_id)
               IN  IF s_key = None THEN conv[i - 1]
                   ELSE Append(conv[i - 1], RowToInsert(s_key[1], df[i]))
    IN  conv[Len(df)]

\* save_daily raises sqlite3.IntegrityError: daily_data.date is part of the
\* primary key of a WITHOUT ROWID table and therefore NOT NULL
save_daily_raises(st, df) ==
    \E i \in 1..Len(RowsToInsert(st, df)) : RowsToInsert(st, df)[i].date = None

\* ClimateCache.save_daily: daily_data after the call.  The groups of
\* group_by touch disjoint keys, so their order does not show; a call that
\* raises is rolled back as a whole by the connection's context manager.
save_daily(st, dd, df) ==
    IF df = <<>> \/ save_daily_raises(st, df) THEN dd
    ELSE InsertAll(dd, RowsToInsert(st, df))

\* mutant: the upper bound of the range is exclusive
SelectDailyBelowEnd(dd, s_key, lo, hi) ==
    LET sel[i \in 0..Len(dd)] ==
          IF i = 0 THEN <<>>
          ELSE IF /\ dd[i].station_key = s_key
                  /\ lo # None /\ hi # None
                  /\ lo[1] <= dd[i].date /\ dd[i].date < hi[1]
               THEN Append(sel[i - 1], dd[i])
               ELSE sel[i - 1]
    IN  sel[Len(dd)]

\* the rows of daily_data (in table order) that satisfy
\* "station_key = s_key AND date BETWEEN lo AND hi"; a NULL bound selects nothing
SelectDaily(dd, s_key, lo, hi) ==
    LET sel[i \in 0..Len(dd)] ==
          IF i = 0 THEN <<>>
          ELSE IF /\ dd[i].station_key = s_key
                  /\ lo # None /\ hi # None
                  /\ lo[1] <= dd[i].date /\ dd[i].date <= hi[1]
               THEN Append(sel[i - 1], dd[i])
               ELSE sel[i - 1]
    IN  sel[Len(dd)]

\* ClimateCache.get_cached_daily: the DataFrame rows, in the order of the cursor
get_cached_daily(st, dd, station_id, start_year, end_year) ==
    LET s_key == get_station_key(st, station_id)
    IN  IF s_key = None THEN <<>>
        ELSE LET s_date == start_year * 10000 + 101
                 e_date == end_year * 10000 + 1231
                 rows == SelectDaily(dd, s_key[1], Some(s_date), Some(e_date))
             IN  [i \in 1..Len(rows) |->
                    LET c == int_to_date_components(Some(rows[i].date))
                    IN  [station_id |-> station_id,
                         date |-> c[1], year |-> c[2], month |-> c[3], day |-> c[4],
                         temp_mean |-> unscale_val(rows[i].temp_mean),
                         temp_min |-> unscale_val(rows[i].temp_min),
                         temp_max |-> unscale_val(rows[i].temp_max),
                         precip |-> unscale_val(rows[i].precip)]]

\* ClimateCache.get_existing_dates: a set of optional ISO strings
get_existing_dates(st, dd, station_id, start_date, end_date) ==
    LET s_key == get_station_key(st, station_id)
    IN  IF s_key = None THEN {}
        ELSE LET rows == SelectDaily(dd, s_key[1], date_to_int(Some(start_date)),
                                     date_to_int(Some(end_date)))
             IN  {int_to_date_components(Some(rows[i].date))[1] : i \in 1..Len(rows)}

\* mutant: a block that is already logged for the station is updated in place
LogStationRequestDedup(st, sr, station_id, start_date, end_date, status) ==
    LET s_key == get_station_key(st, station_id)
        same(i) == /\ sr[i].station_key = s_key[1]
                   /\ sr[i].start_date = date_to_int(Some(start_date))
                   /\ sr[i].end_date = date_to_int(Some(end_date))
    IN  IF s_key = None THEN sr
        ELSE IF \E i \in 1..Len(sr) : same(i)
             THEN [i \in 1..Len(sr) |->
                     IF same(i) THEN [sr[i] EXCEPT !.status = status] ELSE sr[i]]
             ELSE Append(sr, [station_key |-> s_key[1],
                              start_date |-> date_to_int(Some(start_date)),
                              end_date |-> date_to_int(Some(end_date)),
                              status |-> status])

\* ClimateCache.log_station_request: station_requests after the call
log_station_request(st, sr, station_id, start_date, end_date, status) ==
    LET s_key == get_station_key(st, station_id)
    IN  IF s_key = None THEN sr
        ELSE Append(sr, [station_key |-> s_key[1],
                         start_date |-> date_to_int(Some(start_date)),
                         end_date |-> date_to_int(Some(end_date)),
                         status |-> status])

\* ClimateCache.get_station_requests: <<s_str, e_str, status>> per logged block
get_station_requests(st, sr, station_id) ==
    LET s_key == get_station_key(st, station_id)
    IN  IF s_key = None THEN <<>>
        ELSE LET sel[i \in 0..Len(sr)] ==
                   IF i = 0 THEN <<>>
                   ELSE IF sr[i].station_key = s_key[1]
                        THEN Append(sel[i - 1],
                                    <<int_to_date_components(sr[i].start_date)[1],
                                      int_to_date_components(sr[i].end_date)[1],
                                      sr[i].status>>)
                        ELSE sel[i - 1]
             IN  sel[Len(sr)]

\* ------------------------------------------------------------------------
\* msc_client.py: the gap resolver
\* ------------------------------------------------------------------------
RECURSIVE AllReqDatesOpenEnd(_, _)
\* mutant: the loop stops before req_end
AllReqDatesOpenEnd(curr, req_end) ==
    IF DateLe(curr, req_end) /\ curr # req_end
    THEN <<isoformat(curr)>> \o AllReqDatesOpenEnd(NextDay(curr), req_end)
    ELSE <<>>

RECURSIVE AllReqDates(_, _)
\* the ISO strings of every date from curr to req_end, ascending
AllReqDates(curr, req_end) ==
    IF DateLe(curr, req_end)
    THEN <<isoformat(curr)>> \o AllReqDates(NextDay(curr), req_end)
    ELSE <<>>

\* mutant: only blocks logged SUCCESS count as checked
IsCheckedSuccessOnly(range, d_str) ==
    /\ range[3] = "SUCCESS"
    /\ range[1] # None /\ range[2] # None
    /\ StrLe(range[1][1], d_str) /\ StrLe(d_str, range[2][1])

\* "s <= d_str <= e" for one row of get_station_requests.  Python raises
\* TypeError when s or e is None; the log only ever receives 8-digit dates
\* (LogDatesWellFormed), so that case does not arise.
IsChecked(range, d_str) ==
    /\ range[1] # None /\ range[2] # None
    /\ StrLe(range[1][1], d_str) /\ StrLe(d_str, range[2][1])

\* mutant: cached dates are not subtracted
MissingDatesIgnoreCache(all_req_dates, existing_dates, checked_ranges) ==
    LET miss[i \in 0..Len(all_req_dates)] ==
          IF i = 0 THEN <<>>
          ELSE IF \E j \in 1..Len(checked_ranges) :
                     IsChecked(checked_ranges[j], all_req_dates[i])
               THEN miss[i - 1]
          ELSE Append(miss[i - 1], all_req_dates[i])
    IN  miss[Len(all_req_dates)]

\* the requested dates that are neither cached nor inside a logged block
MissingDates(all_req_dates, existing_dates, checked_ranges) ==
    LET miss[i \in 0..Len(all_req_dates)] ==
          IF i = 0 THEN <<>>
          ELSE IF Some(all_req_dates[i]) \in existing_dates THEN miss[i - 1]
          ELSE IF \E j \in 1..Len(checked_ranges) :
                     IsChecked(checked_ranges[j], all_req_dates[i])
               THEN miss[i - 1]
          ELSE Append(miss[i - 1], all_req_dates[i])
    IN  miss[Len(all_req_dates)]

RECURSIVE SortStr(_)
\* list.sort() of a list of str (insertion sort by StrLe)
SortStr(l) ==
    IF l = <<>> THEN <<>>
    ELSE LET rest == SortStr(Tail(l))
             n == Cardinality({i \in 1..Len(rest) :
                                 StrLe(rest[i], Head(l)) /\ rest[i] # Head(l)})
         IN  SubSeq(rest, 1, n) \o <<Head(l)>> \o SubSeq(rest, n + 1, Len(rest))

\* mutant: a block ends at every date
BlockBreakEveryDay(prev, curr_d) == ToOrdinal(curr_d) - ToOrdinal(prev) >= 1

\* whether a block ends between two consecutive missing dates
BlockBreak(prev, curr_d) == ToOrdinal(curr_d) - ToOrdinal(prev) > 1

\* "Group into blocks": the missing dates are sorted, then cut into blocks
GroupBlocks(missing_dates) ==
    IF missing_dates = <<>> THEN <<>>
    ELSE LET n == Len(missing_dates)
             sorted == SortStr(missing_dates)
             dts == [i \in 1..n |-> fromisoformat(sorted[i])]
             \* loop state after index i: <<blocks, b_start, prev>>
             loop[i \in 1..n] ==
               IF i = 1 THEN <<<<>>, dts[1], dts[1]>>
               ELSE LET p == loop[i - 1]
                    IN  IF BlockBreak(p[3], dts[i])
                        THEN <<Append(p[1], <<p[2], p[3]>>), dts[i], dts[i]>>
                        ELSE <<p[1], p[2], dts[i]>>
         IN  Append(loop[n][1], <<loop[n][2], loop[n][3]>>)

\* MSCClient._get_missing_blocks
get_missing_blocks(st, dd, sr, sid, req_start, req_end) ==
    LET existing_dates == get_existing_dates(st, dd, sid, isoformat(req_start),
                                             isoformat(req_end))
        checked_ranges == get_station_requests(st, sr, sid)
    IN  GroupBlocks(MissingDates(AllReqDates(req_start, req_end),
                                 existing_dates, checked_ranges))

\* ------------------------------------------------------------------------
\* msc_client.py: the fetch orchestrator, one invocation at a time
\* ------------------------------------------------------------------------
VARIABLES
    today,         \* datetime.date.today()
    pc,            \* position of the running fetch_daily_data, "idle" when none runs
    req,           \* its arguments and the range derived from them (end_year is
                   \* not read again once req_end is set); req.fresh is history:
                   \* no observation and no log entry existed at the call
    idx,           \* index in req.station_ids of the station being processed
    blocks,        \* the gap blocks resolved for that station
    bi,            \* index in blocks of the block being fetched
    offset,        \* pagination offset within the block
    station_data,  \* records accumulated for the block
    server_rows,   \* remote side: the records that match the block's query
    all_dfs,       \* the per-station frames read so far
    calls,         \* history: remote requests issued for the current station
    pass_logged,   \* history: every block of the current station got a log entry
    completed,     \* history: <<sid, req_start, req_end>> of the station passes
                   \* in which every gap block was fetched and logged
    last_call,     \* history: the latest direct save_daily or
                   \* log_station_request call (its arguments and the number
                   \* of rows the written table held before it), while
                   \* nothing else has run since; or the latest
                   \* calculate_trendline or _add_anomaly_columns call (its
                   \* arguments and its outcome); or the latest request of
                   \* the page loop and its answer
    txn            \* the transaction of the save_daily call under way on
                   \* its connection: the frame, the converted rows still to
                   \* insert and the connection's uncommitted view of
                   \* daily_data (the store variables are what is committed,
                   \* which is what any other connection reads)

store == <<stations, station_seq, daily_data, station_requests>>
client == <<pc, req, idx, blocks, bi, offset, station_data, server_rows, all_dfs,
            calls, pass_logged>>
vars == <<stations, station_seq, daily_data, station_requests, today, pc, req, idx,
          blocks, bi, offset, station_data, server_rows, all_dfs, calls,
          pass_logged, completed, last_call, txn>>

\* no save_daily call is under way
NoTxn == [df |-> <<>>, rows |-> <<>>, work |-> <<>>]

NoCall == [op |-> "none", df |-> <<>>, len_before |-> 0]

StationIds == {"S1", "S2"}

\* station metadata as find_stations_near passes it to save_stations
StationRow(id, name) ==
    [id |-> id, name |-> name, latitude |-> IF name = "A" THEN 51 ELSE 45,
     longitude |-> IF name = "A" THEN -114 ELSE -75]

\* two measurement records: values with two decimals, zeros and absent fields
MeasA == [temp_mean |-> Some(2345), temp_min |-> Some(-1250), temp_max |-> Some(0),
          precip |-> None]
MeasB == [temp_mean |-> None, temp_min |-> Some(0), temp_max |-> Some(715),
          precip |-> Some(120)]

\* a row of a DAILY_SCHEMA frame (the year, month and day columns, which
\* save_daily does not read, are left out)
DailyRow(sid, date_str, m) ==
    [station_id |-> sid, date |-> date_str, temp_mean |-> m.temp_mean,
     temp_min |-> m.temp_min, temp_max |-> m.temp_max, precip |-> m.precip]

NoReq == [station_ids |-> <<>>, start_year |-> 0, end_year |-> None,
          req_start |-> <<0, 0, 0>>, req_end |-> <<0, 0, 0>>, fresh |-> FALSE]

Init ==
    /\ stations = <<>>
    /\ station_seq = 0
    /\ daily_data = <<>>
    /\ station_requests = <<>>
    /\ today = <<BaseYear, 1, FirstDay>>
    /\ pc = "idle"
    /\ req = NoReq
    /\ idx = 0
    /\ blocks = <<>>
    /\ bi = 0
    /\ offset = 0
    /\ station_data = <<>>
    /\ server_rows = <<>>
    /\ all_dfs = <<>>
    /\ calls = 0
    /\ pass_logged = TRUE
    /\ completed = {}
    /\ last_call = NoCall
    /\ txn = NoTxn

\* the clock moves on between invocations
Tick ==
    /\ pc = "idle"
    /\ today[3] < LastDay
    /\ today' = NextDay(today)
    /\ UNCHANGED <<txn, store, client, completed, last_call>>

\* a call of ClimateCache.save_stations(df)
SaveStationsCall(df) ==
    /\ pc = "idle"
    /\ station_seq + Len(df) <= MaxKey
    /\ stations' = save_stations(<<stations, station_seq>>, df)[1]
    /\ station_seq' = save_stations(<<stations, station_seq>>, df)[2]
    /\ last_call' = NoCall
    /\ UNCHANGED <<txn, daily_data, station_requests, today, client, completed>>

\* a call of ClimateCache.save_daily(df); an IntegrityError leaves the store as it was
SaveDailyCall(df) ==
    /\ pc = "idle"
    /\ daily_data' = save_daily(stations, daily_data, df)
    /\ last_call' = [op |-> "save_daily", df |-> df, len_before |-> Len(daily_data)]
    /\ UNCHANGED <<txn, stations, station_seq, station_requests, today, client, completed>>

RECURSIVE GroupedBy(_, _)
\* the rows of a frame regrouped by station in the given order of stations
\* (group_by yields the groups in no specified order)
GroupedBy(df, ids) ==
    IF ids = <<>> THEN <<>>
    ELSE SelectSeq(df, LAMBDA row : row.station_id = Head(ids))
         \o GroupedBy(df, Tail(ids))

\* save_daily(df) is entered: the connection is opened and the groups are
\* taken in some order; nothing is written yet
SaveDailyBegin(df, ids) ==
    /\ pc = "idle"
    /\ df # <<>>
    /\ pc' = "saving"
    /\ txn' = [df |-> df, rows |-> RowsToInsert(stations, GroupedBy(df, ids)),
               work |-> daily_data]
    /\ UNCHANGED <<store, today, req, idx, blocks, bi, offset, station_data,
                   server_rows, all_dfs, calls, pass_logged, completed, last_call>>

\* mutant: the connection is in autocommit mode, every row is committed as
\* it is inserted
SaveDailyInsertAutocommit ==
    /\ pc = "saving"
    /\ txn.rows # <<>>
    /\ LET r == Head(txn.rows)
       IN  IF r.date = None
           THEN /\ pc' = "idle"
                /\ txn' = NoTxn
                /\ last_call' = [op |-> "save_daily", df |-> txn.df,
                                 len_before |-> Len(daily_data)]
                /\ UNCHANGED daily_data
           ELSE /\ daily_data' = UpsertDaily(txn.work, [r EXCEPT !.date = r.date[1]])
                /\ txn' = [txn EXCEPT !.rows = Tail(txn.rows), !.work = daily_data']
                /\ UNCHANGED <<pc, last_call>>
    /\ UNCHANGED <<stations, station_seq, station_requests, today, req, idx, blocks,
                   bi, offset, station_data, server_rows, all_dfs, calls,
                   pass_logged, completed>>

\* one row of executemany inside the transaction: the upsert changes the
\* connection's own view; a row without a date violates the primary key,
\* the IntegrityError leaves the with block and the transaction is rolled back
SaveDailyInsert ==
    /\ pc = "saving"
    /\ txn.rows # <<>>
    /\ LET r == Head(txn.rows)
       IN  IF r.date = None
           THEN /\ pc' = "idle"
                /\ txn' = NoTxn
                /\ last_call' = [op |-> "save_daily", df |-> txn.df,
                                 len_before |-> Len(daily_data)]
                /\ UNCHANGED daily_data
           ELSE /\ txn' = [txn EXCEPT !.rows = Tail(txn.rows),
                                      !.work = UpsertDaily(txn.work,
                                                 [r EXCEPT !.date = r.date[1]])]
                /\ UNCHANGED <<pc, last_call, daily_data>>
    /\ UNCHANGED <<stations, station_seq, station_requests, today, req, idx, blocks,
                   bi, offset, station_data, server_rows, all_dfs, calls,
                   pass_logged, completed>>

\* the with block ends normally: the transaction is committed
SaveDailyCommit ==
    /\ pc = "saving"
    /\ txn.rows = <<>>
    /\ daily_data' = txn.work
    /\ pc' = "idle"
    /\ txn' = NoTxn
    /\ last_call' = [op |-> "save_daily", df |-> txn.df, len_before |-> Len(daily_data)]
    /\ UNCHANGED <<stations, station_seq, station_requests, today, req, idx, blocks,
                   bi, offset, station_data, server_rows, all_dfs, calls,
                   pass_logged, completed>>

\* the process is stopped while the call is under way: the uncommitted
\* transaction is lost with the connection
SaveDailyInterrupted ==
    /\ pc = "saving"
    /\ pc' = "idle"
    /\ txn' = NoTxn
    /\ last_call' = NoCall
    /\ UNCHANGED <<store, today, req, idx, blocks, bi, offset, station_data,
                   server_rows, all_dfs, calls, pass_logged, completed>>

\* a call of ClimateCache.log_station_request with ISO dates
LogRequestCall(sid, s, e, status) ==
    /\ pc = "idle"
    /\ Len(station_requests) < MaxLog
    /\ station_requests' = log_station_request(stations, station_requests, sid,
                                               isoformat(s), isoformat(e), status)
    /\ last_call' = [op |-> "log_station_request",
                     df |-> <<[station_id |-> sid, start_date |-> isoformat(s),
                               end_date |-> isoformat(e), status |-> status]>>,
                     len_before |-> Len(station_requests)]
    /\ UNCHANGED <<txn, stations, station_seq, daily_data, today, client, completed>>

\* a call of ClimateCache.log_station_request while the log holds fewer than
\* MaxRelog entries, whoever wrote them
LogRequestAgainCall(sid, s, e, status) ==
    /\ pc = "idle"
    /\ Len(station_requests) < MaxRelog
    /\ station_requests' = log_station_request(stations, station_requests, sid,
                                               isoformat(s), isoformat(e), status)
    /\ last_call' = [op |-> "log_station_request",
                     df |-> <<[station_id |-> sid, start_date |-> isoformat(s),
                               end_date |-> isoformat(e), status |-> status]>>,
                     len_before |-> Len(station_requests)]
    /\ UNCHANGED <<txn, stations, station_seq, daily_data, today, client, completed>>

\* mutant: a given end year is taken to its Dec 31 whatever the day is
ReqEndNoClamp(end_year, tdy) ==
    IF end_year = None THEN tdy ELSE <<end_year[1], 12, 31>>

\* the requested range of fetch_daily_data (msc_client.py lines 218-225)
ReqEnd(end_year, tdy) ==
    IF end_year = None THEN tdy
    ELSE IF DateLe(<<end_year[1], 12, 31>>, tdy) THEN <<end_year[1], 12, 31>>
    ELSE tdy

\* fetch_daily_data is called: the range is fixed, the station loop starts
FetchDailyData(station_ids, start_year, end_year) ==
    /\ pc = "idle"
    /\ req' = [station_ids |-> station_ids, start_year |-> start_year,
               end_year |-> end_year,
               req_start |-> <<start_year, 1, 1>>,
               req_end |-> ReqEnd(end_year, today),
               fresh |-> (daily_data = <<>> /\ station_requests = <<>>)]
    /\ all_dfs' = <<>>
    /\ idx' = 1
    /\ pc' = IF station_ids = <<>> THEN "returned" ELSE "resolve"
    /\ last_call' = NoCall
    /\ UNCHANGED <<txn, store, today, blocks, bi, offset, station_data, server_rows,
                   calls, pass_logged, completed>>

Sid == req.station_ids[idx]

\* mutant: a station without gaps is fetched again over the whole range
ResolveGapsAlwaysFetch ==
    /\ pc = "resolve"
    /\ blocks' = LET b == get_missing_blocks(stations, daily_data, station_requests,
                                             Sid, req.req_start, req.req_end)
                 IN  IF b = <<>> THEN <<<<req.req_start, req.req_end>>>> ELSE b
    /\ pc' = "page"
    /\ bi' = 1
    /\ offset' = 0
    /\ station_data' = <<>>
    /\ server_rows' = <<>>
    /\ calls' = 0
    /\ pass_logged' = TRUE
    /\ UNCHANGED <<txn, store, today, req, idx, all_dfs, completed, last_call>>

\* mutant: resolving the gaps marks the first gap block in the request log
ResolveGapsMarksBlock ==
    /\ pc = "resolve"
    /\ blocks' = get_missing_blocks(stations, daily_data, station_requests, Sid,
                                    req.req_start, req.req_end)
    /\ station_requests' =
         IF blocks' = <<>> THEN station_requests
         ELSE log_station_request(stations, station_requests, Sid,
                                  isoformat(blocks'[1][1]), isoformat(blocks'[1][2]),
                                  "EMPTY")
    /\ pc' = IF blocks' = <<>> THEN "read" ELSE "page"
    /\ bi' = IF blocks' = <<>> THEN 0 ELSE 1
    /\ offset' = 0
    /\ station_data' = <<>>
    /\ server_rows' = <<>>
    /\ calls' = 0
    /\ pass_logged' = TRUE
    /\ UNCHANGED <<txn, stations, station_seq, daily_data, today, req, idx, all_dfs,
                   completed, last_call>>

\* mutant: a station without a key in the store is passed over without a
\* remote fetch
ResolveGapsSkipsUnknown ==
    /\ pc = "resolve"
    /\ blocks' = IF get_station_key(stations, Sid) = None THEN <<>>
                 ELSE get_missing_blocks(stations, daily_data, station_requests, Sid,
                                         req.req_start, req.req_end)
    /\ pc' = IF blocks' = <<>> THEN "read" ELSE "page"
    /\ bi' = IF blocks' = <<>> THEN 0 ELSE 1
    /\ offset' = 0
    /\ station_data' = <<>>
    /\ server_rows' = <<>>
    /\ calls' = 0
    /\ pass_logged' = TRUE
    /\ UNCHANGED <<txn, store, today, req, idx, all_dfs, completed, last_call>>

\* the top of the station loop: gaps are resolved, then either the cache-hit
\* branch or the first block
ResolveGaps ==
    /\ pc = "resolve"
    /\ blocks' = get_missing_blocks(stations, daily_data, station_requests, Sid,
                                    req.req_start, req.req_end)
    /\ pc' = IF blocks' = <<>> THEN "read" ELSE "page"
    /\ bi' = IF blocks' = <<>> THEN 0 ELSE 1
    /\ offset' = 0
    /\ station_data' = <<>>
    /\ server_rows' = <<>>
    /\ calls' = 0
    /\ pass_logged' = TRUE
    /\ UNCHANGED <<txn, store, today, req, idx, all_dfs, completed, last_call>>

\* ------------------------------------------------------------------------
\* The remote API: for a block query it matches the records of the dates of
\* the block it has data for (none, the odd days of the month, or all), and
\* serves them in pages of at most PageSize records.
\* ------------------------------------------------------------------------
Shapes == {"none", "odd", "all"}

\* the record of one feature as _fetch_and_cache_block stores it
RemoteRecord(sid, dt) ==
    DailyRow(sid, Some(isoformat(dt) \o TimeSuffix),
             IF dt[3] % 2 = 1 THEN MeasA ELSE MeasB)

RECURSIVE ServerMatch(_, _, _, _)
ServerMatch(sid, b_start, b_end, shape) ==
    IF ~DateLe(b_start, b_end) THEN <<>>
    ELSE (IF shape = "all" \/ (shape = "odd" /\ b_start[3] % 2 = 1)
          THEN <<RemoteRecord(sid, b_start)>> ELSE <<>>)
         \o ServerMatch(sid, NextDay(b_start), b_end, shape)

Min(a, b) == IF a <= b THEN a ELSE b

\* the JSON body answered to a request with the given offset
Response(rows, off) ==
    LET last == Min(off + Min(MAX_LIMIT, PageSize), Len(rows))
        features == SubSeq(rows, off + 1, last)
    IN  [features |-> features, numberReturned |-> Len(features),
         numberMatched |-> Len(rows)]

\* where _fetch_and_cache_block goes when the page loop ends
AfterPages(data) == IF data # <<>> THEN "persist" ELSE "log"

\* mutant: the loop goes on until the offset has passed numberMatched
PageLoopStopsPast(ok, data) ==
    /\ pc = "page"
    /\ calls' = calls + 1
    /\ IF ~ok
       THEN /\ pc' = "raised"
            /\ UNCHANGED <<offset, station_data>>
       ELSE IF data.features = <<>>
            THEN /\ UNCHANGED <<offset, station_data>>
                 /\ pc' = AfterPages(station_data)
            ELSE /\ station_data' = station_data \o data.features
                 /\ offset' = offset + data.numberReturned
                 /\ pc' = IF offset' > data.numberMatched
                             \/ data.numberReturned = 0
                          THEN AfterPages(station_data')
                          ELSE "page"
    /\ UNCHANGED <<txn, store, today, req, idx, blocks, bi, all_dfs, pass_logged, completed>>

\* mutant: a page that reports numberReturned 0 does not end the loop
PageLoopNoZeroStop(ok, data) ==
    /\ pc = "page"
    /\ calls' = calls + 1
    /\ IF ~ok
       THEN /\ pc' = "raised"
            /\ UNCHANGED <<offset, station_data>>
       ELSE IF data.features = <<>>
            THEN /\ UNCHANGED <<offset, station_data>>
                 /\ pc' = AfterPages(station_data)
            ELSE /\ station_data' = station_data \o data.features
                 /\ offset' = offset + data.numberReturned
                 /\ pc' = IF offset' >= data.numberMatched
                          THEN AfterPages(station_data')
                          ELSE "page"
    /\ UNCHANGED <<txn, store, today, req, idx, blocks, bi, all_dfs, pass_logged, completed>>

\* one iteration of the page loop of _fetch_and_cache_block on the answer to
\* its request: ok = FALSE is a request that fails (raise_for_status or a
\* transport error), data the JSON body otherwise
PageLoop(ok, data) ==
    /\ pc = "page"
    /\ calls' = calls + 1
    /\ IF ~ok
       THEN /\ pc' = "raised"
            /\ UNCHANGED <<offset, station_data>>
       ELSE IF data.features = <<>>
            THEN /\ UNCHANGED <<offset, station_data>>
                 /\ pc' = AfterPages(station_data)
            ELSE /\ station_data' = station_data \o data.features
                 /\ offset' = offset + data.numberReturned
                 /\ pc' = IF offset' >= data.numberMatched
                             \/ data.numberReturned = 0
                          THEN AfterPages(station_data')
                          ELSE "page"
    /\ UNCHANGED <<txn, store, today, req, idx, blocks, bi, all_dfs, pass_logged, completed>>

\* mutant: a request that fails is taken for an empty page and the block
\* goes on to be logged
PageRequestSwallowError(ok, shape) ==
    /\ pc = "page"
    /\ calls' = calls + 1
    /\ LET rows == IF ~ok THEN <<>>
                   ELSE IF offset = 0
                        THEN ServerMatch(Sid, blocks[bi][1], blocks[bi][2], shape)
                        ELSE server_rows
           data == Response(rows, offset)
       IN  /\ server_rows' = rows
           /\ IF data.features = <<>>
              THEN /\ UNCHANGED <<offset, station_data>>
                   /\ pc' = AfterPages(station_data)
              ELSE /\ station_data' = station_data \o data.features
                   /\ offset' = offset + data.numberReturned
                   /\ pc' = IF offset' >= data.numberMatched
                               \/ data.numberReturned = 0
                            THEN AfterPages(station_data')
                            ELSE "page"
    /\ UNCHANGED <<txn, store, today, req, idx, blocks, bi, all_dfs, pass_logged, completed, last_call>>

\* mutant: a request that fails marks its block in the request log before
\* the error leaves the invocation
PageRequestLogsFailure(ok, shape) ==
    LET rows == IF offset = 0
                THEN ServerMatch(Sid, blocks[bi][1], blocks[bi][2], shape)
                ELSE server_rows
        data == Response(rows, offset)
    IN  /\ pc = "page"
        /\ calls' = calls + 1
        /\ IF ~ok
           THEN /\ pc' = "raised"
                /\ station_requests' =
                     log_station_request(stations, station_requests, Sid,
                                         isoformat(blocks[bi][1]),
                                         isoformat(blocks[bi][2]), "EMPTY")
                /\ UNCHANGED <<offset, station_data>>
           ELSE /\ UNCHANGED station_requests
                /\ IF data.features = <<>>
                   THEN /\ UNCHANGED <<offset, station_data>>
                        /\ pc' = AfterPages(station_data)
                   ELSE /\ station_data' = station_data \o data.features
                        /\ offset' = offset + data.numberReturned
                        /\ pc' = IF offset' >= data.numberMatched
                                    \/ data.numberReturned = 0
                                 THEN AfterPages(station_data')
                                 ELSE "page"
        /\ server_rows' = IF ok THEN rows ELSE server_rows
        /\ UNCHANGED <<txn, stations, station_seq, daily_data, today, req, idx, blocks,
                       bi, all_dfs, pass_logged, completed, last_call>>

\* one iteration of the page loop against the remote API described above
PageRequest(ok, shape) ==
    LET rows == IF offset = 0
                THEN ServerMatch(Sid, blocks[bi][1], blocks[bi][2], shape)
                ELSE server_rows
    IN  /\ PageLoop(ok, Response(rows, offset))
        /\ server_rows' = IF ok THEN rows ELSE server_rows
        /\ UNCHANGED last_call

\* the sum of numberReturned of the pages received so far for the block
\* being fetched, kept from the answers themselves
ReturnedSoFar ==
    IF last_call.op = "session.get" /\ last_call.block = <<idx, bi>>
    THEN last_call.returned_before + last_call.data.numberReturned
    ELSE 0

\* one iteration of the page loop against a server that answers anything:
\* the request fails, or the body carries any features and any counts; the
\* request and its answer are recorded
ServerAnswers(ok, data) ==
    /\ PageLoop(ok, data)
    /\ last_call' = [op |-> "session.get", block |-> <<idx, bi>>, ok |-> ok,
                     offset |-> offset, data |-> data,
                     returned_before |-> ReturnedSoFar]
    /\ UNCHANGED server_rows

\* mutant: the records of the block are not saved before it is logged
PersistBlockSkipsSave ==
    /\ pc = "persist"
    /\ pc' = "log"
    /\ UNCHANGED <<txn, store, today, req, idx, blocks, bi, offset, station_data,
                   server_rows, all_dfs, calls, pass_logged, completed, last_call>>

\* mutant: saving a block first clears the stored observations of its
\* station
PersistBlockReplacesStation ==
    /\ pc = "persist"
    /\ daily_data' =
         save_daily(stations,
                    SelectSeq(daily_data,
                              LAMBDA r : Some(r.station_key) #
                                           get_station_key(stations, Sid)),
                    station_data)
    /\ pc' = IF save_daily_raises(stations, station_data) THEN "raised" ELSE "log"
    /\ UNCHANGED <<txn, stations, station_seq, station_requests, today, req, idx, blocks,
                   bi, offset, station_data, server_rows, all_dfs, calls,
                   pass_logged, completed, last_call>>

\* self.cache.save_daily(new_df) of a block that returned records
PersistBlock ==
    /\ pc = "persist"
    /\ daily_data' = save_daily(stations, daily_data, station_data)
    /\ pc' = IF save_daily_raises(stations, station_data) THEN "raised" ELSE "log"
    /\ UNCHANGED <<txn, stations, station_seq, station_requests, today, req, idx, blocks,
                   bi, offset, station_data, server_rows, all_dfs, calls,
                   pass_logged, completed, last_call>>

\* mutant: every fetched block is logged SUCCESS
BlockStatusAlwaysSuccess(data) == "SUCCESS"

\* the status _fetch_and_cache_block logs for the records it accumulated
BlockStatus(data) == IF data # <<>> THEN "SUCCESS" ELSE "EMPTY"

\* self.cache.log_station_request(...) of the block, then the next block
LogBlock ==
    /\ pc = "log"
    /\ station_requests' =
         log_station_request(stations, station_requests, Sid,
                             isoformat(blocks[bi][1]), isoformat(blocks[bi][2]),
                             BlockStatus(station_data))
    /\ pass_logged' = (pass_logged /\ Len(station_requests') = Len(station_requests) + 1)
    /\ IF bi < Len(blocks)
       THEN /\ bi' = bi + 1
            /\ offset' = 0
            /\ station_data' = <<>>
            /\ server_rows' = <<>>
            /\ pc' = "page"
       ELSE /\ pc' = "read"
            /\ UNCHANGED <<bi, offset, station_data, server_rows>>
    /\ UNCHANGED <<txn, stations, station_seq, daily_data, today, req, idx, blocks,
                   all_dfs, calls, completed, last_call>>

\* mutant: after a fetch only the rows of the fetched span are returned
FinalFrameFetchedSpan(st, dd, sid, r) ==
    LET all == get_cached_daily(st, dd, sid, r.start_year, r.req_end[1])
    IN  IF blocks = <<>> THEN all
        ELSE SelectSeq(all, LAMBDA row :
                 StrLe(isoformat(blocks[1][1]), row.date[1]))

\* the frame fetch_daily_data appends for a station (lines 252-255)
FinalFrame(st, dd, sid, r) == get_cached_daily(st, dd, sid, r.start_year, r.req_end[1])

\* mutant: the dataset is returned as soon as one station has been read
FinalReadReturnsEarly ==
    /\ pc = "read"
    /\ all_dfs' = Append(all_dfs, FinalFrame(stations, daily_data, Sid, req))
    /\ completed' = IF blocks # <<>> /\ pass_logged
                    THEN completed \cup {<<Sid, req.req_start, req.req_end>>}
                    ELSE completed
    /\ idx' = idx
    /\ pc' = "returned"
    /\ UNCHANGED <<txn, store, today, req, blocks, bi, offset, station_data, server_rows,
                   calls, pass_logged, last_call>>

\* "Final retrieval from cache" of the station, then the next station
FinalRead ==
    /\ pc = "read"
    /\ all_dfs' = Append(all_dfs, FinalFrame(stations, daily_data, Sid, req))
    /\ completed' = IF blocks # <<>> /\ pass_logged
                    THEN completed \cup {<<Sid, req.req_start, req.req_end>>}
                    ELSE completed
    /\ IF idx < Len(req.station_ids)
       THEN idx' = idx + 1 /\ pc' = "resolve"
       ELSE idx' = idx /\ pc' = "returned"
    /\ UNCHANGED <<txn, store, today, req, blocks, bi, offset, station_data, server_rows,
                   calls, pass_logged, last_call>>

RECURSIVE Concat(_)
\* pl.concat(all_dfs)
Concat(dfs) == IF dfs = <<>> THEN <<>> ELSE Head(dfs) \o Concat(Tail(dfs))

\* the invocation is over (it returned pl.concat(all_dfs) or raised); its
\* working variables are dropped
Finish ==
    /\ pc \in {"returned", "raised"}
    /\ pc' = "idle"
    /\ req' = NoReq
    /\ idx' = 0
    /\ blocks' = <<>>
    /\ bi' = 0
    /\ offset' = 0
    /\ station_data' = <<>>
    /\ server_rows' = <<>>
    /\ all_dfs' = <<>>
    /\ calls' = 0
    /\ pass_logged' = TRUE
    /\ UNCHANGED <<txn, store, today, completed, last_call>>

\* the process is stopped while fetch_daily_data runs: its working
\* variables are lost, the committed tables stay
Interrupt ==
    /\ pc \notin {"idle", "saving"}
    /\ pc' = "idle"
    /\ req' = NoReq
    /\ idx' = 0
    /\ blocks' = <<>>
    /\ bi' = 0
    /\ offset' = 0
    /\ station_data' = <<>>
    /\ server_rows' = <<>>
    /\ all_dfs' = <<>>
    /\ calls' = 0
    /\ pass_logged' = TRUE
    /\ UNCHANGED <<txn, store, today, completed, last_call>>

RECURSIVE DatesFrom(_, _)
\* the dates a, a+1, ..., b
DatesFrom(a, b) == IF DateLe(a, b) THEN <<a>> \o DatesFrom(NextDay(a), b) ELSE <<>>

\* ------------------------------------------------------------------------
\* report_plots.calculate_trendline.  A float is an exact fraction <<n, d>>
\* (d > 0); <<0, 0>> is NaN.
\* ------------------------------------------------------------------------
NaN == <<0, 0>>
Frac(n) == <<n, 1>>
FracAdd(a, b) == <<a[1] * b[2] + b[1] * a[2], a[2] * b[2]>>
FracMul(a, b) == <<a[1] * b[1], a[2] * b[2]>>
IsNumber(v) == v[2] # 0

RECURSIVE ValidPairs(_, _)
\* [(xi, yi) for xi, yi in zip(x, y) if yi is not None]
ValidPairs(x, y) ==
    IF x = <<>> \/ y = <<>> THEN <<>>
    ELSE (IF Head(y) # None THEN <<<<Head(x), Head(y)[1]>>>> ELSE <<>>)
         \o ValidPairs(Tail(x), Tail(y))

RECURSIVE SumOf(_)
\* the sum of a list of numbers
SumOf(s) == IF s = <<>> THEN 0 ELSE Head(s) + SumOf(Tail(s))

\* the outcomes of scipy.stats.linregress on at least two points: the least
\* squares line, or, when all x values are identical, a ValueError (current
\* releases) or a NaN slope and intercept (older releases divide by zero)
linregress(pairs) ==
    LET n == Len(pairs)
        sx == SumOf([i \in 1..n |-> pairs[i][1]])
        sy == SumOf([i \in 1..n |-> pairs[i][2]])
        sxx == SumOf([i \in 1..n |-> pairs[i][1] * pairs[i][1]])
        sxy == SumOf([i \in 1..n |-> pairs[i][1] * pairs[i][2]])
        ssxm == n * sxx - sx * sx
        ssxym == n * sxy - sx * sy
    IN  IF ssxm = 0
        THEN {[raised |-> TRUE, slope |-> NaN, intercept |-> NaN],
              [raised |-> FALSE, slope |-> NaN, intercept |-> NaN]}
        ELSE {[raised |-> FALSE, slope |-> <<ssxym, ssxm>>,
               intercept |-> <<sy * ssxm - ssxym * sx, n * ssxm>>]}

ReturnsNone == [kind |-> "None", value |-> <<>>]

\* the outcomes of calculate_trendline(x, y): None, a list, or the exception
\* of linregress
calculate_trendline(x, y) ==
    IF Len(x) < 2 \/ Len(y) < 2 \/ Len(x) # Len(y) THEN {ReturnsNone}
    ELSE LET valid_pairs == ValidPairs(x, y)
         IN  IF Len(valid_pairs) < 2 THEN {ReturnsNone}
             ELSE {IF result.raised
                   THEN [kind |-> "raised", value |-> <<>>]
                   ELSE [kind |-> "list",
                         value |-> [i \in 1..Len(x) |->
                                      FracAdd(FracMul(result.slope, Frac(x[i])),
                                              result.intercept)]]
                   : result \in linregress(valid_pairs)}

\* a call of calculate_trendline(x, y)
TrendlineCall(x, y) ==
    /\ pc = "idle"
    /\ \E r \in calculate_trendline(x, y) :
          last_call' = [op |-> "calculate_trendline", x |-> x, y |-> y, result |-> r]
    /\ UNCHANGED <<txn, store, today, client, completed>>

\* ------------------------------------------------------------------------
\* report_plots._add_anomaly_columns.  A stats frame is a list of rows
\* [year, avg], avg None (null) or Some(v); an added column holds None or
\* Some(fraction).
\* ------------------------------------------------------------------------
\* a - b on two column values; null if either is null
NullSub(a, b) ==
    IF a = None \/ b = None THEN None
    ELSE Some(FracAdd(a[1], FracMul(b[1], Frac(-1))))

\* stats["avg"].mean(): the mean of the values that are not null, None when
\* there is none
ColumnMean(stats) ==
    LET vals == SelectSeq([i \in 1..Len(stats) |-> stats[i].avg],
                          LAMBDA a : a # None)
    IN  IF vals = <<>> THEN None
        ELSE Some(<<SumOf([i \in 1..Len(vals) |-> vals[i][1]]), Len(vals)>>)

\* stats.with_columns(trend=..., anomaly=pl.col("avg") - ...)
WithColumns(stats, trend) ==
    [i \in 1..Len(stats) |->
        [year |-> stats[i].year, avg |-> stats[i].avg, trend |-> trend[i],
         anomaly |-> NullSub(IF stats[i].avg = None THEN None
                             ELSE Some(Frac(stats[i].avg[1])), trend[i])]]

\* the outcomes of _add_anomaly_columns(stats): the frame with the two
\* columns, or the exception that calculate_trendline let through
add_anomaly_columns(stats) ==
    LET lt_mean == ColumnMean(stats)
        x_vals == [i \in 1..Len(stats) |-> stats[i].year]
        y_vals == [i \in 1..Len(stats) |-> stats[i].avg]
    IN  {IF trend_y.kind = "raised" THEN [kind |-> "raised", value |-> <<>>]
         ELSE IF trend_y.kind = "list"
         THEN [kind |-> "frame",
               value |-> WithColumns(stats, [i \in 1..Len(stats) |->
                                                Some(trend_y.value[i])])]
         ELSE [kind |-> "frame",
               value |-> WithColumns(stats, [i \in 1..Len(stats) |-> lt_mean])]
         : trend_y \in calculate_trendline(x_vals, y_vals)}

\* a call of _add_anomaly_columns(stats)
AnomalyCall(stats) ==
    /\ pc = "idle"
    /\ \E r \in add_anomaly_columns(stats) :
          last_call' = [op |-> "_add_anomaly_columns", stats |-> stats, result |-> r]
    /\ UNCHANGED <<txn, store, today, client, completed>>

\* ------------------------------------------------------------------------
\* Specifications
\* ------------------------------------------------------------------------
\* Spec: station discovery and fetch_daily_data invocations as the clock advances
FetchFrames == {<<StationRow("S1", "A")>>,
                <<StationRow("S1", "A"), StationRow("S2", "B")>>}

StationLists == {<<"S1">>, <<"S2", "S1">>}

YearArgs == {<<BaseYear, None>>, <<BaseYear, Some(BaseYear)>>, <<BaseYear + 1, None>>,
             <<BaseYear, Some(BaseYear - 1)>>}

Next ==
    \/ Tick
    \/ \E df \in FetchFrames : SaveStationsCall(df)
    \/ \E ids \in StationLists, ya \in YearArgs : FetchDailyData(ids, ya[1], ya[2])
    \/ ResolveGaps
    \/ \E ok \in BOOLEAN, shape \in Shapes : PageRequest(ok, shape)
    \/ PersistBlock
    \/ LogBlock
    \/ FinalRead
    \/ Finish

Spec == Init /\ [][Next]_vars

\* SpecGap: the store is filled through the ClimateCache methods (as a
\* migration or an earlier run leaves it) and the gap resolver is applied to it
GapWindow == DatesFrom(<<BaseYear - 1, 12, 31>>, <<BaseYear, 1, GapLast>>)

GapFrames == {<<StationRow("S1", "A"), StationRow("S2", "B")>>}

\* one observation of S1 on any day of the window, or S2 observed on all of them
GapDailyFrames ==
    {<<DailyRow("S1", Some(isoformat(GapWindow[i])), MeasA)>> : i \in 1..Len(GapWindow)}
      \cup {[i \in 1..Len(GapWindow) |->
               DailyRow("S2", Some(isoformat(GapWindow[i]) \o TimeSuffix), MeasB)]}

\* for S1 an EMPTY block of any single day of the window and the SUCCESS
\* blocks of its first two days and of its second to last day; for S2 the
\* whole window
GapLogArgs ==
    {<<"S1", GapWindow[i], GapWindow[i], "EMPTY">> : i \in 1..Len(GapWindow)}
      \cup {<<"S1", GapWindow[1], GapWindow[2], "SUCCESS">>,
            <<"S1", GapWindow[2], GapWindow[Len(GapWindow)], "SUCCESS">>,
            <<"S2", GapWindow[1], GapWindow[Len(GapWindow)], "EMPTY">>}

NextGap ==
    \/ \E df \in GapFrames : SaveStationsCall(df)
    \/ \E df \in GapDailyFrames : SaveDailyCall(df)
    \/ \E a \in GapLogArgs : LogRequestCall(a[1], a[2], a[3], a[4])

SpecGap == Init /\ [][NextGap]_vars

\* SpecStore: the writing methods of ClimateCache on two stations and two days
StoreFrames == {<<StationRow("S1", "A")>>, <<StationRow("S1", "B")>>,
                <<StationRow("S2", "A")>>}

StoreDay1 == <<BaseYear - 1, 12, 31>>
StoreDay2 == <<BaseYear, 1, 1>>

\* date strings: ISO, ISO with a time, with slashes, too short, and no string
StoreDateStrings ==
    {Some(isoformat(StoreDay1)),
     Some(isoformat(StoreDay2) \o TimeSuffix),
     Some(SlashFormat(StoreDay2)),
     Some(ShortFormat(StoreDay2)),
     None}

StoreRows(ms) ==
    {DailyRow(sid, ds, m) : sid \in StationIds, ds \in StoreDateStrings, m \in ms}

StoreDailyFrames ==
    {<<r>> : r \in StoreRows({MeasA, MeasB})}
      \cup {<<DailyRow("S1", Some(isoformat(StoreDay2) \o TimeSuffix), MeasA), r2>> :
               r2 \in StoreRows({MeasB})}

NextStore ==
    \/ \E df \in StoreFrames : SaveStationsCall(df)
    \/ \E df \in StoreDailyFrames : SaveDailyCall(df)

SpecStore == Init /\ [][NextStore]_vars

\* SpecWrites: the writing methods of ClimateCache while station S1 is saved
\* and station S2 never is
WriteStationFrames == {<<StationRow("S1", "A")>>}

WriteDates == {Some(isoformat(StoreDay1)), Some(isoformat(StoreDay2) \o TimeSuffix)}

\* single rows of either station, frames that mix a row of S2 with a row of
\* S1 in either order, and a row of S2 without a date
WriteDailyFrames ==
    {<<DailyRow(sid, ds, m)>> : sid \in StationIds, ds \in WriteDates, m \in {MeasA, MeasB}}
      \cup {<<DailyRow("S2", ds, MeasA), DailyRow("S1", ds, MeasB)>> : ds \in WriteDates}
      \cup {<<DailyRow("S1", ds, MeasA), DailyRow("S2", ds, MeasB)>> : ds \in WriteDates}
      \cup {<<DailyRow("S2", None, MeasA)>>}

WriteLogArgs ==
    {<<sid, StoreDay1, StoreDay2, "SUCCESS">> : sid \in StationIds}
      \cup {<<sid, StoreDay2, StoreDay2, "EMPTY">> : sid \in StationIds}

NextWrites ==
    \/ \E df \in WriteStationFrames : SaveStationsCall(df)
    \/ \E df \in WriteDailyFrames : SaveDailyCall(df)
    \/ \E a \in WriteLogArgs : LogRequestCall(a[1], a[2], a[3], a[4])

SpecWrites == Init /\ [][NextWrites]_vars

\* SpecLog: fetch_daily_data invocations and direct log_station_request
\* calls on a store in which S1 is saved and S2 is not
LogDay1 == <<BaseYear, 1, 1>>
LogDay2 == <<BaseYear, 1, 2>>

LogArgs ==
    {<<"S1", LogDay1, LogDay2, "SUCCESS">>,
     <<"S1", LogDay2, LogDay2, "EMPTY">>,
     <<"S2", LogDay1, LogDay2, "EMPTY">>}

NextLog ==
    \/ \E df \in WriteStationFrames : SaveStationsCall(df)
    \/ \E a \in LogArgs : LogRequestAgainCall(a[1], a[2], a[3], a[4])
    \/ \E ids \in StationLists : FetchDailyData(ids, BaseYear, None)
    \/ ResolveGaps
    \/ \E ok \in BOOLEAN, shape \in Shapes : PageRequest(ok, shape)
    \/ PersistBlock
    \/ LogBlock
    \/ FinalRead
    \/ Finish

SpecLog == Init /\ [][NextLog]_vars

\* SpecFail: fetch_daily_data invocations for two saved stations, S1 with a
\* day in the middle of the range already logged, so that its gaps form
\* several blocks
NextFail ==
    \/ \E df \in GapFrames : SaveStationsCall(df)
    \/ LogRequestAgainCall("S1", LogDay2, LogDay2, "EMPTY")
    \/ \E ids \in StationLists : FetchDailyData(ids, BaseYear, None)
    \/ ResolveGaps
    \/ \E ok \in BOOLEAN, shape \in Shapes : PageRequest(ok, shape)
    \/ PersistBlock
    \/ LogBlock
    \/ FinalRead
    \/ Finish

SpecFail == Init /\ [][NextFail]_vars

\* SpecTrend: calculate_trendline on the lists of at most MaxPoints elements,
\* x over two values and y over one value and None, and on two rising y lists
Lists(S) == UNION {[1..n -> S] : n \in 0..MaxPoints}

TrendXs == Lists({1, 2})
TrendYs == Lists({None, Some(3)}) \cup {<<Some(0), Some(3)>>, <<Some(0), None, Some(3)>>}

NextTrend == \E x \in TrendXs, y \in TrendYs : TrendlineCall(x, y)

SpecTrend == Init /\ [][NextTrend]_vars

\* SpecAnomaly: _add_anomaly_columns on the frames of one to MaxPoints rows,
\* the years over two values and avg over two values and null
AnomalyRows == {[year |-> yr, avg |-> a] : yr \in {BaseYear, BaseYear + 1},
                                          a \in {None, Some(1), Some(3)}}

AnomalyFrames == Lists(AnomalyRows) \ {<<>>}

NextAnomaly == \E stats \in AnomalyFrames : AnomalyCall(stats)

SpecAnomaly == Init /\ [][NextAnomaly]_vars

\* SpecPages: the first fetch of S1 against a server whose pages carry up to
\* PageSize records of the block, report numberReturned as 0, 1 or the number
\* of records, and report any numberMatched up to MaxMatched
PageRecords == ServerMatch("S1", <<BaseYear, 1, 1>>, <<BaseYear, 1, PageSize>>, "all")

Bodies ==
    UNION {{[features |-> SubSeq(PageRecords, 1, k), numberReturned |-> r,
             numberMatched |-> nm] :
               r \in {0, 1, k}, nm \in 0..MaxMatched} :
           k \in 0..PageSize}

NextPages ==
    \/ \E df \in WriteStationFrames : SaveStationsCall(df)
    \/ FetchDailyData(<<"S1">>, BaseYear, None)
    \/ ResolveGaps
    \/ \E ok \in BOOLEAN, data \in Bodies : ServerAnswers(ok, data)
    \/ PersistBlock
    \/ LogBlock
    \/ FinalRead
    \/ Finish

SpecPages == Init /\ [][NextPages]_vars

\* SpecPagesFair: SpecPages with every request of the page loop answered in
\* the end (session.get is a blocking call that returns or raises)
SpecPagesFair ==
    SpecPages /\ WF_vars(\E ok \in BOOLEAN, data \in Bodies : ServerAnswers(ok, data))

\* SpecTxn: save_daily taken row by row inside its transaction, with one or
\* both stations saved, on the frames of SpecWrites and on a frame whose
\* second station group has a row without a date
GroupOrders == {<<"S1", "S2">>, <<"S2", "S1">>}

TxnStationFrames == WriteStationFrames \cup GapFrames

TxnDailyFrames ==
    WriteDailyFrames
      \cup {<<DailyRow("S1", Some(isoformat(StoreDay2)), MeasA),
              DailyRow("S2", None, MeasB)>>}

NextTxn ==
    \/ \E df \in TxnStationFrames : SaveStationsCall(df)
    \/ \E df \in TxnDailyFrames, ids \in GroupOrders : SaveDailyBegin(df, ids)
    \/ SaveDailyInsert
    \/ SaveDailyCommit
    \/ SaveDailyInterrupted

SpecTxn == Init /\ [][NextTxn]_vars

\* SpecCrash: the invocations of SpecFail, which may be stopped at any point
NextCrash ==
    \/ \E df \in GapFrames : SaveStationsCall(df)
    \/ LogRequestAgainCall("S1", LogDay2, LogDay2, "EMPTY")
    \/ \E ids \in StationLists : FetchDailyData(ids, BaseYear, None)
    \/ ResolveGaps
    \/ \E ok \in BOOLEAN, shape \in Shapes : PageRequest(ok, shape)
    \/ PersistBlock
    \/ LogBlock
    \/ FinalRead
    \/ Finish
    \/ Interrupt

SpecCrash == Init /\ [][NextCrash]_vars

\* SpecScale: observations of S1 on one day whose temp_mean runs through
\* every value of two decimals up to ScaleMax hundredths, with temp_min its
\* negative
ScaleFrames ==
    {<<DailyRow("S1", Some(isoformat(StoreDay2)),
                [temp_mean |-> Some(v), temp_min |-> Some(-v),
                 temp_max |-> None, precip |-> None])>> : v \in (-ScaleMax)..ScaleMax}

NextScale ==
    \/ \E df \in WriteStationFrames : SaveStationsCall(df)
    \/ \E df \in ScaleFrames : SaveDailyCall(df)

SpecScale == Init /\ [][NextScale]_vars

\* ------------------------------------------------------------------------
\* Helpers of the properties
\* ------------------------------------------------------------------------
\* the YYYYMMDD integer of a date
DateInt(dt) == dt[1] * 10000 + dt[2] * 100 + dt[3]

Known(sid) == get_station_key(stations, sid) # None

KeyOf(sid) == get_station_key(stations, sid)[1]

\* the stored rows of a station
RowsOf(sid) ==
    IF Known(sid) THEN {i \in 1..Len(daily_data) : daily_data[i].station_key = KeyOf(sid)}
    ELSE {}

InPass == pc \in {"page", "persist", "log", "read"}

\* some completed pass of the station covers the range [a, b]
Covered(sid, a, b) ==
    \E c \in completed : c[1] = sid /\ DateLe(c[2], a) /\ DateLe(b, c[3])

\* every date the request log holds is an 8-digit integer
LogDatesWellFormed ==
    \A i \in 1..Len(station_requests) :
        /\ station_requests[i].start_date # None
        /\ station_requests[i].end_date # None
        /\ int_to_date_components(station_requests[i].start_date)[1] # None
        /\ int_to_date_components(station_requests[i].end_date)[1] # None

\* ------------------------------------------------------------------------
\* C1  Once a pass of fetch_daily_data over a station has fetched and logged
\* every gap block of a range, gap resolution for that range and for every
\* range inside it returns no block (in every state in which a gap
\* resolution can start: between invocations and at the top of the station
\* loop), and a later pass over a covered range issues no remote request.
\* ------------------------------------------------------------------------
C1_NoRefetchAfterCompletedPass ==
    /\ pc \in {"idle", "resolve"} => \A c \in completed :
          LET ds == DatesFrom(c[2], c[3])
          IN  \A i \in 1..Len(ds) : \A j \in i..Len(ds) :
                 get_missing_blocks(stations, daily_data, station_requests,
                                    c[1], ds[i], ds[j]) = <<>>
    /\ (pc \in {"page", "persist", "log", "read"}
          /\ Covered(Sid, req.req_start, req.req_end)
          /\ ~(pc = "read" /\ blocks # <<>>))
       => (pc = "read" /\ calls = 0)

\* a repeated request over a range whose blocks were logged EMPTY and SUCCESS
C1_Witness ==
    /\ pc = "read" /\ blocks = <<>> /\ calls = 0
    /\ <<Sid, req.req_start, req.req_end>> \in completed
    /\ \E i \in 1..Len(station_requests) : station_requests[i].status = "EMPTY"
    /\ \E i \in 1..Len(station_requests) : station_requests[i].status = "SUCCESS"

\* ------------------------------------------------------------------------
\* C5  When the gap resolver returns no block for a station, the pass over
\* that station issues no remote request and leaves the store unchanged: it
\* goes straight to the final read.
\* ------------------------------------------------------------------------
C5_NoGapNoRemoteCall ==
    [][/\ (pc = "resolve"
             /\ get_missing_blocks(stations, daily_data, station_requests, Sid,
                                   req.req_start, req.req_end) = <<>>)
          => (pc' = "read" /\ calls' = 0 /\ store' = store)
       /\ (pc = "read" /\ blocks = <<>>)
          => (calls = 0 /\ calls' = calls /\ store' = store
                /\ pc' \in {"resolve", "returned"})]_vars

\* a cache hit of a station that has cached rows
C5_Witness ==
    /\ pc = "read" /\ blocks = <<>> /\ calls = 0
    /\ RowsOf(Sid) # {}

\* ------------------------------------------------------------------------
\* C6  (as claimed) When the page loop of a block has ended, the log step
\* appends an entry of the station covering exactly the block, SUCCESS with
\* the records stored if records were returned, EMPTY otherwise; no row is
\* written for a block without records.
\* ------------------------------------------------------------------------
BlockEntryAppended ==
    /\ Known(Sid)
    /\ station_requests' =
         Append(station_requests,
                [station_key |-> KeyOf(Sid),
                 start_date |-> Some(DateInt(blocks[bi][1])),
                 end_date |-> Some(DateInt(blocks[bi][2])),
                 status |-> IF Len(station_data) >= 1 THEN "SUCCESS" ELSE "EMPTY"])
    /\ \A i \in 1..Len(station_data) :
          \E j \in RowsOf(Sid) :
             daily_data[j] = [RowToInsert(KeyOf(Sid), station_data[i])
                                EXCEPT !.date = @[1]]

NoRowWithoutRecords ==
    /\ pc = "persist" => station_data # <<>>
    /\ pc \in {"page", "log"} => daily_data' = daily_data

C6_EveryFetchedBlockLogged ==
    [][(pc = "log" => BlockEntryAppended) /\ NoRowWithoutRecords]_vars

\* C6 (amended)  The same for a station that is known to the store.
C6_KnownStationBlockLogged ==
    [][(pc = "log" /\ Known(Sid) => BlockEntryAppended) /\ NoRowWithoutRecords]_vars

\* a known station has just had an EMPTY block logged after a SUCCESS block
C6_Witness ==
    /\ pc = "read" /\ Known(Sid) /\ station_data = <<>> /\ blocks # <<>>
    /\ Len(station_requests) >= 2
    /\ station_requests[Len(station_requests)].status = "EMPTY"
    /\ station_requests[Len(station_requests)].station_key = KeyOf(Sid)
    /\ \E i \in 1..Len(station_requests) :
          /\ station_requests[i].status = "SUCCESS"
          /\ station_requests[i].station_key = KeyOf(Sid)

\* ------------------------------------------------------------------------
\* C7  Scenario A and B: one station, a 5-day range, nothing cached or logged.
\* ------------------------------------------------------------------------
RangeDays == ToOrdinal(req.req_end) - ToOrdinal(req.req_start) + 1

ScenarioA == pc # "idle" /\ req.fresh /\ Len(req.station_ids) = 1 /\ RangeDays = 5

ScenarioOutcome ==
    /\ (pc \in {"page", "persist", "log", "read", "returned"}
          => blocks = <<<<req.req_start, req.req_end>>>>)
    /\ (pc = "returned" /\ Len(station_data) = 3)
          => /\ Cardinality(RowsOf(Sid)) = 3
             /\ Len(daily_data) = 3
             /\ Len(station_requests) = 1
             /\ station_requests[1].status = "SUCCESS"
             /\ station_requests[1].start_date = Some(DateInt(req.req_start))
             /\ station_requests[1].end_date = Some(DateInt(req.req_end))
             /\ get_missing_blocks(stations, daily_data, station_requests, Sid,
                                   req.req_start, req.req_end) = <<>>

\* C7 (as claimed)  Starting from an empty store, the request yields one gap
\* block covering the range; after the fetch returned 3 of the 5 days the
\* store holds 3 rows and one SUCCESS entry, and the same request has no gap.
C7_ScenarioFromEmptyStore == (ScenarioA /\ stations = <<>>) => ScenarioOutcome

\* C7 (amended)  The same, starting from a store that holds the station but
\* no observation and no log entry.
C7_ScenarioForKnownStation == (ScenarioA /\ Known(Sid)) => ScenarioOutcome

C7_Witness ==
    /\ ScenarioA /\ Known(Sid) /\ pc = "returned" /\ Len(station_data) = 3
    /\ Cardinality(RowsOf(Sid)) = 3

\* ------------------------------------------------------------------------
\* C8  The dataset fetch_daily_data returns is, station by station in request
\* order, the rows the store holds for the station between start_year and
\* the year of the requested end when the invocation returns.
\* ------------------------------------------------------------------------
\* the returned form of the stored rows of a station with a year in [lo, hi]
StoredFrame(sid, lo, hi) ==
    IF ~Known(sid) THEN <<>>
    ELSE LET rows == SelectSeq(daily_data, LAMBDA r :
                         /\ r.station_key = KeyOf(sid)
                         /\ lo <= r.date \div 10000 /\ r.date \div 10000 <= hi)
         IN  [i \in 1..Len(rows) |->
                LET y == rows[i].date \div 10000
                    m == (rows[i].date \div 100) % 100
                    d == rows[i].date % 100
                    val(x) == IF x = None THEN None ELSE Some(10 * x[1])
                IN  [station_id |-> sid, date |-> Some(isoformat(<<y, m, d>>)),
                     year |-> Some(y), month |-> Some(m), day |-> Some(d),
                     temp_mean |-> val(rows[i].temp_mean),
                     temp_min |-> val(rows[i].temp_min),
                     temp_max |-> val(rows[i].temp_max),
                     precip |-> val(rows[i].precip)]]

C8_ReturnedRowsAreStoredRows ==
    pc = "returned" =>
       Concat(all_dfs) =
          Concat([i \in 1..Len(req.station_ids) |->
                    StoredFrame(req.station_ids[i], req.start_year, req.req_end[1])])

\* two stations returned rows, the second one rows cached before this call
\* and rows fetched in it
C8_Witness ==
    /\ pc = "returned" /\ Len(req.station_ids) = 2
    /\ all_dfs[1] # <<>>
    /\ blocks # <<>> /\ station_data # <<>>
    /\ Len(all_dfs[2]) > Len(station_data)

\* ------------------------------------------------------------------------
\* The gap resolver against an independent account of the satisfied dates
\* (SpecGap): for a station and a requested interval [a, b],
\*   CachedIn   the dates of the interval that have a stored row,
\*   LoggedAll  the dates inside some logged block of the station,
\*   BlockDates the dates of the returned blocks.
\* ------------------------------------------------------------------------
\* the dates the properties range over: the window and a day on either side
GapDates ==
    {GapWindow[i] : i \in 1..Len(GapWindow)}
      \cup {<<BaseYear - 1, 12, 30>>, <<BaseYear, 1, GapLast + 1>>}

Interval(a, b) == {d \in GapDates : DateLe(a, d) /\ DateLe(d, b)}

CachedIn(sid, a, b) ==
    {d \in Interval(a, b) : \E i \in RowsOf(sid) : daily_data[i].date = DateInt(d)}

LoggedAll(sid) ==
    {d \in GapDates :
       Known(sid) /\ \E i \in 1..Len(station_requests) :
          /\ station_requests[i].station_key = KeyOf(sid)
          /\ station_requests[i].start_date[1] <= DateInt(d)
          /\ DateInt(d) <= station_requests[i].end_date[1]}

Gaps(sid, a, b) == get_missing_blocks(stations, daily_data, station_requests, sid, a, b)

BlockDates(bs) ==
    {d \in GapDates : \E k \in 1..Len(bs) : DateLe(bs[k][1], d) /\ DateLe(d, bs[k][2])}

\* every interval of window dates for S1 (start after end included), and
\* for S2 the whole window and its first two days
GapCases ==
    {<<"S1", GapWindow[i], GapWindow[j]>> :
        i \in 1..Len(GapWindow), j \in 1..Len(GapWindow)}
      \cup {<<"S2", GapWindow[1], GapWindow[Len(GapWindow)]>>,
            <<"S2", GapWindow[1], GapWindow[2]>>}

\* C2  (as claimed) The dates of the returned blocks, the cached dates and
\* the dates covered by the logged blocks of the station are together
\* exactly the requested interval.
C2_UnionIsInterval ==
    \A c \in GapCases :
       BlockDates(Gaps(c[1], c[2], c[3])) \cup CachedIn(c[1], c[2], c[3])
          \cup LoggedAll(c[1]) = Interval(c[2], c[3])

\* C2 (amended)  The dates of the returned blocks, the cached dates of the
\* interval and the logged dates that lie in the interval are together
\* exactly the requested interval.
C2_UnionWithinInterval ==
    \A c \in GapCases :
       BlockDates(Gaps(c[1], c[2], c[3])) \cup CachedIn(c[1], c[2], c[3])
          \cup (LoggedAll(c[1]) \cap Interval(c[2], c[3])) = Interval(c[2], c[3])

\* a station with a cached date, a logged date and a gap inside one interval
C2_Witness ==
    \E c \in GapCases :
       /\ CachedIn(c[1], c[2], c[3]) # {}
       /\ LoggedAll(c[1]) \cap Interval(c[2], c[3]) # {}
       /\ Gaps(c[1], c[2], c[3]) # <<>>
       /\ CachedIn(c[1], c[2], c[3]) \cap LoggedAll(c[1]) = {}

\* C3  The returned blocks are pairwise non-adjacent and hold no date that
\* is cached or inside a logged block, SUCCESS or EMPTY.
C3_BlocksApartAndUnsatisfied ==
    \A c \in GapCases :
       LET bs == Gaps(c[1], c[2], c[3])
       IN  /\ \A i \in 1..Len(bs) : \A j \in 1..Len(bs) :
                i # j => ToOrdinal(bs[j][1]) # ToOrdinal(bs[i][2]) + 1
           /\ BlockDates(bs) \cap CachedIn(c[1], c[2], c[3]) = {}
           /\ BlockDates(bs) \cap LoggedAll(c[1]) = {}

\* two blocks are returned around a date that is satisfied, for a station
\* that has a cached date and an EMPTY block in the interval
C3_Witness ==
    \E c \in GapCases :
       /\ Len(Gaps(c[1], c[2], c[3])) = 2
       /\ Known(c[1])
       /\ \E i \in 1..Len(station_requests) :
             /\ station_requests[i].station_key = KeyOf(c[1])
             /\ station_requests[i].status = "EMPTY"
             /\ station_requests[i].start_date[1] >= DateInt(c[2])
             /\ station_requests[i].end_date[1] <= DateInt(c[3])

\* C4  The returned blocks are the maximal runs of consecutive unsatisfied
\* dates of the interval, each with start <= end, in ascending order; the
\* list is empty exactly when no date of the interval is unsatisfied.
Unsatisfied(sid, a, b) == (Interval(a, b) \ CachedIn(sid, a, b)) \ LoggedAll(sid)

C4_BlocksAreMaximalRuns ==
    \A c \in GapCases :
       LET bs == Gaps(c[1], c[2], c[3])
           un == Unsatisfied(c[1], c[2], c[3])
       IN  /\ BlockDates(bs) = un
           /\ (bs = <<>>) <=> (un = {})
           /\ \A k \in 1..Len(bs) :
                 /\ DateLe(bs[k][1], bs[k][2])
                 /\ \A d \in GapDates :
                       (NextDay(d) = bs[k][1] \/ d = NextDay(bs[k][2])) => d \notin un
           /\ \A k \in 1..(Len(bs) - 1) : ToOrdinal(bs[k][2]) < ToOrdinal(bs[k + 1][1])

\* Scenario D in small: the first and the last day of the window are cached,
\* nothing is logged, and the one block returned is the run between them
C4_Witness ==
    LET a == GapWindow[1]
        b == GapWindow[Len(GapWindow)]
    IN  /\ station_requests = <<>>
        /\ CachedIn("S1", a, b) = {a, b}
        /\ Gaps("S1", a, b) = <<<<NextDay(a), GapWindow[Len(GapWindow) - 1]>>>>

\* ------------------------------------------------------------------------
\* The observation table (SpecStore)
\* ------------------------------------------------------------------------
UniqueRows(dd) ==
    \A i \in 1..Len(dd) : \A j \in 1..Len(dd) :
       i # j => ~(dd[i].station_key = dd[j].station_key /\ dd[i].date = dd[j].date)

\* the latest direct call was a save_daily that did not raise
Saved == last_call.op = "save_daily" /\ ~save_daily_raises(stations, last_call.df)

\* row i of the saved frame is the last one of its station and date
LastOfItsKey(df, i) ==
    \A j \in (i + 1)..Len(df) :
       ~(df[j].station_id = df[i].station_id
           /\ date_to_int(df[j].date) = date_to_int(df[i].date))

\* C9  daily_data never holds two rows of one (station, date); after a
\* save_daily the row of each saved (station, date) carries the four
\* measurements of the saved observation, absent ones as absent.
C9_OneRowPerStationDate ==
    /\ UniqueRows(daily_data)
    /\ Saved =>
         \A i \in 1..Len(last_call.df) :
            LET row == last_call.df[i]
            IN  (Known(row.station_id) /\ LastOfItsKey(last_call.df, i)) =>
                  \E j \in RowsOf(row.station_id) :
                     /\ daily_data[j].date = date_to_int(row.date)[1]
                     /\ daily_data[j].temp_mean = scale_val(row.temp_mean)
                     /\ daily_data[j].temp_min = scale_val(row.temp_min)
                     /\ daily_data[j].temp_max = scale_val(row.temp_max)
                     /\ daily_data[j].precip = scale_val(row.precip)

\* a save_daily replaced the rows it named (none was added) and left an
\* absent temp_mean where the other measurement record has a value
C9_Witness ==
    /\ Saved
    /\ Len(last_call.df) = 1
    /\ Known(last_call.df[1].station_id)
    /\ last_call.df[1].temp_mean = None
    /\ last_call.len_before = Len(daily_data)
    /\ \E j \in RowsOf(last_call.df[1].station_id) :
          /\ daily_data[j].date = date_to_int(last_call.df[1].date)[1]
          /\ daily_data[j].temp_mean = None

\* C10  save_daily is idempotent: after a save_daily, the same call again
\* leaves daily_data as it is, and get_cached_daily returns the same rows.
C10_SaveDailyIdempotent ==
    last_call.op = "save_daily" =>
       LET again == save_daily(stations, daily_data, last_call.df)
       IN  /\ again = daily_data
           /\ \A sid \in StationIds :
                 get_cached_daily(stations, again, sid, BaseYear - 1, BaseYear)
                   = get_cached_daily(stations, daily_data, sid, BaseYear - 1, BaseYear)

\* a save_daily of two rows of known stations added rows to the table
C10_Witness ==
    /\ Saved
    /\ Len(last_call.df) = 2
    /\ \A i \in 1..2 : Known(last_call.df[i].station_id)
    /\ Len(daily_data) > last_call.len_before

\* ------------------------------------------------------------------------
\* Absent measurements and zeros (SpecStore)
\* ------------------------------------------------------------------------
MeasurementFields == {"temp_mean", "temp_min", "temp_max", "precip"}

\* what get_cached_daily returns for a station over the two years of the rows
ReadBack(sid) == get_cached_daily(stations, daily_data, sid, BaseYear - 1, BaseYear)

\* C11  A measurement that is absent in a saved observation is stored as
\* absent and read back as absent, never as 0; a measurement of 0.0 is read
\* back as 0.0, never as absent.
C11_AbsentStaysAbsentZeroStaysZero ==
    Saved =>
      \A i \in 1..Len(last_call.df) :
         LET row == last_call.df[i]
         IN  (Known(row.station_id) /\ LastOfItsKey(last_call.df, i)) =>
               /\ \E j \in RowsOf(row.station_id) :
                     /\ daily_data[j].date = date_to_int(row.date)[1]
                     /\ \A f \in MeasurementFields :
                           (row[f] = None) <=> (daily_data[j][f] = None)
               /\ \E k \in 1..Len(ReadBack(row.station_id)) :
                     LET got == ReadBack(row.station_id)[k]
                     IN  /\ date_to_int(got.date) = date_to_int(row.date)
                         /\ \A f \in MeasurementFields :
                               /\ (row[f] = None) <=> (got[f] = None)
                               /\ (row[f] = Some(0)) => (got[f] = Some(0))

\* an observation with temp_max = 0.0 and no precip was saved and is read
\* back with temp_max = 0.0 and no precip
C11_Witness ==
    /\ Saved
    /\ Len(last_call.df) = 1
    /\ Known(last_call.df[1].station_id)
    /\ last_call.df[1].temp_max = Some(0)
    /\ last_call.df[1].precip = None
    /\ \E k \in 1..Len(ReadBack(last_call.df[1].station_id)) :
          /\ ReadBack(last_call.df[1].station_id)[k].temp_max = Some(0)
          /\ ReadBack(last_call.df[1].station_id)[k].precip = None
          /\ date_to_int(ReadBack(last_call.df[1].station_id)[k].date)
               = date_to_int(last_call.df[1].date)

\* ------------------------------------------------------------------------
\* Malformed dates on write (SpecStore)
\* ------------------------------------------------------------------------
\* the date string of a frame row cannot be reduced to 8 digits
Malformed(row) == date_to_int(row.date) = None

\* C12  A date string that cannot be reduced to at least 8 digits is treated
\* as absent and never raises: _date_to_int returns no value for it, and
\* save_daily leaves the affected row out without failing, while the other
\* rows of the same call are written.
C12_MalformedDateRowSkipped ==
    /\ date_to_int(Some(ShortFormat(StoreDay2))) = None
    /\ date_to_int(None) = None
    /\ last_call.op = "save_daily" =>
         /\ ~save_daily_raises(stations, last_call.df)
         /\ \A i \in 1..Len(last_call.df) :
               LET row == last_call.df[i]
               IN  (Known(row.station_id) /\ ~Malformed(row)
                      /\ LastOfItsKey(last_call.df, i)) =>
                     \E j \in RowsOf(row.station_id) :
                        /\ daily_data[j].date = date_to_int(row.date)[1]
                        /\ \A f \in MeasurementFields :
                              daily_data[j][f] = scale_val(row[f])

\* ------------------------------------------------------------------------
\* Writes for a station that was never saved (SpecWrites)
\* ------------------------------------------------------------------------
\* the rows of a frame that belong to saved stations, in order
KnownPart(df) == SelectSeq(df, LAMBDA row : Known(row.station_id))

\* every stored row and every log entry belongs to a saved station
NoOrphans ==
    /\ \A i \in 1..Len(daily_data) :
          \E j \in 1..Len(stations) : stations[j].key = daily_data[i].station_key
    /\ \A i \in 1..Len(station_requests) :
          \E j \in 1..Len(stations) : stations[j].key = station_requests[i].station_key

\* C13  A write for a station identifier never saved through save_stations
\* is silently skipped: save_daily writes no row and log_station_request
\* appends no entry for it, neither raises, and the rows of saved stations
\* in the same save_daily call are still written.
C13_UnknownStationWriteSkipped ==
    /\ NoOrphans
    /\ \A df \in WriteDailyFrames :
          /\ save_daily(stations, daily_data, df)
               = save_daily(stations, daily_data, KnownPart(df))
          /\ KnownPart(df) = <<>> =>
               /\ save_daily(stations, daily_data, df) = daily_data
               /\ ~save_daily_raises(stations, df)
    /\ last_call.op = "save_daily" =>
          /\ ~save_daily_raises(stations, last_call.df)
          /\ KnownPart(last_call.df) = <<>> => Len(daily_data) = last_call.len_before
          /\ \A i \in 1..Len(last_call.df) :
                LET row == last_call.df[i]
                IN  Known(row.station_id) =>
                      \E j \in RowsOf(row.station_id) :
                         /\ daily_data[j].date = date_to_int(row.date)[1]
                         /\ \A f \in MeasurementFields :
                               daily_data[j][f] = scale_val(row[f])
    /\ last_call.op = "log_station_request" =>
          IF Known(last_call.df[1].station_id)
          THEN Len(station_requests) = last_call.len_before + 1
          ELSE Len(station_requests) = last_call.len_before

\* a save_daily call passed a row of the unsaved S2 before a row of the
\* saved S1: one row was added, the row of S1
C13_Witness ==
    /\ last_call.op = "save_daily"
    /\ Len(last_call.df) = 2
    /\ ~Known(last_call.df[1].station_id)
    /\ Known(last_call.df[2].station_id)
    /\ Len(daily_data) = last_call.len_before + 1
    /\ \A i \in 1..Len(daily_data) : daily_data[i].station_key = KeyOf("S1")

\* ------------------------------------------------------------------------
\* Reading a year range (SpecStore)
\* ------------------------------------------------------------------------
ReadYears == {BaseYear - 1, BaseYear}

\* the stored rows of a station from Jan 1 of sy to Dec 31 of ey
StoredInYears(sid, sy, ey) ==
    {i \in RowsOf(sid) : /\ DateInt(<<sy, 1, 1>>) <= daily_data[i].date
                         /\ daily_data[i].date <= DateInt(<<ey, 12, 31>>)}

\* a returned row is the stored row i of station sid
ReturnedFor(got, sid, i) ==
    /\ got.station_id = sid
    /\ date_to_int(got.date) = Some(daily_data[i].date)
    /\ got.year = Some(daily_data[i].date \div 10000)
    /\ got.month = Some((daily_data[i].date \div 100) % 100)
    /\ got.day = Some(daily_data[i].date % 100)
    /\ \A f \in MeasurementFields :
          got[f] = IF daily_data[i][f] = None THEN None
                   ELSE Some(daily_data[i][f][1] * 10)

\* C14  get_cached_daily returns exactly the stored rows of the station
\* whose date lies between Jan 1 of start_year and Dec 31 of end_year, both
\* included, in ascending date order, and an empty dataset when the station
\* is unknown or has no row in the range.
C14_RangeReadExactAndAscending ==
    \A sid \in StationIds : \A sy \in ReadYears : \A ey \in ReadYears :
       LET got == get_cached_daily(stations, daily_data, sid, sy, ey)
           want == StoredInYears(sid, sy, ey)
       IN  /\ Len(got) = Cardinality(want)
           /\ \A i \in want : \E k \in 1..Len(got) : ReturnedFor(got[k], sid, i)
           /\ \A k \in 1..(Len(got) - 1) :
                 date_to_int(got[k].date)[1] < date_to_int(got[k + 1].date)[1]
           /\ (~Known(sid) \/ want = {}) => got = <<>>

\* S1 holds Jan 1 and Dec 31 of the year before, saved after it: the
\* year of Jan 1 returns one row, the year of Dec 31 the other, both years
\* both rows, and the unsaved S2 nothing
C14_Witness ==
    /\ Known("S1") /\ ~Known("S2")
    /\ Cardinality(RowsOf("S1")) = 2
    /\ last_call.op = "save_daily"
    /\ last_call.len_before = 1
    /\ date_to_int(last_call.df[1].date) = Some(DateInt(StoreDay1))
    /\ Len(get_cached_daily(stations, daily_data, "S1", BaseYear, BaseYear)) = 1
    /\ Len(get_cached_daily(stations, daily_data, "S1", BaseYear - 1, BaseYear - 1)) = 1
    /\ Len(get_cached_daily(stations, daily_data, "S1", BaseYear - 1, BaseYear)) = 2
    /\ get_cached_daily(stations, daily_data, "S2", BaseYear - 1, BaseYear) = <<>>

\* ------------------------------------------------------------------------
\* The stations table (SpecStore)
\* ------------------------------------------------------------------------
UniqueStationIds(st) ==
    \A i \in 1..Len(st) : \A j \in 1..Len(st) :
       i # j => (st[i].station_id # st[j].station_id /\ st[i].key # st[j].key)

\* the identifiers of a frame that the table st does not hold
NewIds(st, df) ==
    {df[i].id : i \in 1..Len(df)} \ {st[j].station_id : j \in 1..Len(st)}

\* save_stations(df) applied to the table st with sequence seq: every row of
\* the frame is in the table with its columns, every station of st is still
\* there under its key, and only the new identifiers added rows
UpsertsFrame(st, seq, df) ==
    LET after == save_stations(<<st, seq>>, df)[1]
    IN  /\ UniqueStationIds(after)
        /\ Len(after) = Len(st) + Cardinality(NewIds(st, df))
        /\ \A i \in 1..Len(df) :
              (\A k \in (i + 1)..Len(df) : df[k].id # df[i].id) =>
                 \E j \in 1..Len(after) :
                    /\ after[j].station_id = df[i].id
                    /\ after[j].name = df[i].name
                    /\ after[j].latitude = df[i].latitude
                    /\ after[j].longitude = df[i].longitude
        /\ \A i \in 1..Len(st) :
              \E j \in 1..Len(after) :
                 /\ after[j].station_id = st[i].station_id
                 /\ after[j].key = st[i].key

\* C15  Station identifiers are unique in every reachable state;
\* save_stations inserts an unknown station and overwrites name, latitude
\* and longitude of a known one without a second row and without failing;
\* no step deletes a station.
C15_StationIdsUnique ==
    [][/\ UniqueStationIds(stations) /\ UniqueStationIds(stations')
       /\ \A i \in 1..Len(stations) :
             \E j \in 1..Len(stations') :
                /\ stations'[j].station_id = stations[i].station_id
                /\ stations'[j].key = stations[i].key
       /\ station_seq' # station_seq =>
             \E df \in StoreFrames :
                /\ stations' = save_stations(<<stations, station_seq>>, df)[1]
                /\ UpsertsFrame(stations, station_seq, df)
       /\ station_seq' # station_seq =>
             \A df \in StoreFrames : UpsertsFrame(stations', station_seq', df)]_vars

\* S1 was saved as "A" and again as "B": one row, key 1, the columns of "B"
C15_Witness ==
    /\ Len(stations) = 1
    /\ station_seq = 2
    /\ stations[1].station_id = "S1"
    /\ stations[1].key = 1
    /\ stations[1].name = "B"
    /\ stations[1].latitude = StationRow("S1", "B").latitude

\* ------------------------------------------------------------------------
\* The request log (SpecLog)
\* ------------------------------------------------------------------------
\* the entry log_station_request writes for a saved station and a block
LogEntry(sid, s_int, e_int, status) ==
    [station_key |-> KeyOf(sid), start_date |-> Some(s_int),
     end_date |-> Some(e_int), status |-> status]

\* this step is a direct log_station_request call
DirectLogStep ==
    /\ pc = "idle"
    /\ last_call'.op = "log_station_request"
    /\ last_call' # last_call

\* no entry of the log is modified, moved or deleted by this step
EntriesKept ==
    /\ Len(station_requests') >= Len(station_requests)
    /\ SubSeq(station_requests', 1, Len(station_requests)) = station_requests

\* the log step of the orchestrator leaves the block behind
BlockLeft == \/ pc' = "page" /\ bi' = bi + 1
             \/ pc' = "read"

\* C16 (as claimed)  The request log is append-only: every
\* log_station_request call appends exactly one entry, a block is logged
\* exactly once per orchestration pass over it, and no step modifies,
\* merges, deduplicates or deletes an entry, also when the new block
\* overlaps or equals a logged one.
C16_EveryCallAppendsOneEntry ==
    [][/\ EntriesKept
       /\ DirectLogStep => Len(station_requests') = Len(station_requests) + 1
       /\ pc = "log" =>
             /\ Len(station_requests') = Len(station_requests) + 1
             /\ BlockLeft
       /\ (~DirectLogStep /\ pc # "log") => station_requests' = station_requests]_vars

\* C16 (amended)  The request log is append-only: a log_station_request
\* call for a saved station appends exactly one entry (none for a station
\* that was never saved), a block of a saved station is logged exactly once
\* per orchestration pass over it, and no step modifies, merges,
\* deduplicates or deletes an entry, also when the new block overlaps or
\* equals a logged one.
C16_LogAppendOnly ==
    [][/\ EntriesKept
       /\ DirectLogStep =>
             LET a == last_call'.df[1]
             IN  IF Known(a.station_id)
                 THEN station_requests' =
                        Append(station_requests,
                               LogEntry(a.station_id, date_to_int(Some(a.start_date))[1],
                                        date_to_int(Some(a.end_date))[1], a.status))
                 ELSE station_requests' = station_requests
       /\ pc = "log" =>
             /\ IF Known(Sid)
                THEN station_requests' =
                       Append(station_requests,
                              LogEntry(Sid, DateInt(blocks[bi][1]), DateInt(blocks[bi][2]),
                                       IF station_data = <<>> THEN "EMPTY" ELSE "SUCCESS"))
                ELSE station_requests' = station_requests
             /\ BlockLeft
       /\ (~DirectLogStep /\ pc # "log") => station_requests' = station_requests]_vars

\* the log holds an entry of a block and, after it, an entry of an equal or
\* overlapping block of the same station written by a direct call
C16_Witness ==
    /\ last_call.op = "log_station_request"
    /\ last_call.len_before >= 1
    /\ Len(station_requests) = last_call.len_before + 1
    /\ \E i \in 1..last_call.len_before :
          LET new == station_requests[Len(station_requests)]
          IN  /\ station_requests[i].station_key = new.station_key
              /\ station_requests[i].start_date[1] <= new.end_date[1]
              /\ new.start_date[1] <= station_requests[i].end_date[1]

\* ------------------------------------------------------------------------
\* Precision of the stored measurements (SpecScale)
\* ------------------------------------------------------------------------
Abs(n) == IF n < 0 THEN -n ELSE n

\* C17  For any observation value v, the value read back after saving it
\* (stored as round(v * 10), returned as stored / 10.0) equals v within 0.1,
\* that is within 10 hundredths.
C17_RoundTripWithinTenth ==
    (Saved /\ Known(last_call.df[1].station_id)) =>
       LET row == last_call.df[1]
           got == ReadBack(row.station_id)
       IN  /\ Len(got) = 1
           /\ \A f \in MeasurementFields :
                 IF row[f] = None THEN got[1][f] = None
                 ELSE /\ got[1][f] # None
                      /\ Abs(got[1][f][1] - row[f][1]) <= 10

\* 0.25 was saved: a tie, stored as 2 and read back as 0.2, so the value
\* read back differs from the value saved
C17_Witness ==
    /\ Saved
    /\ Known("S1")
    /\ last_call.df[1].temp_mean = Some(25)
    /\ Len(ReadBack("S1")) = 1
    /\ ReadBack("S1")[1].temp_mean = Some(20)
    /\ ReadBack("S1")[1].temp_min = Some(-20)

\* ------------------------------------------------------------------------
\* A failing remote call (SpecFail)
\* ------------------------------------------------------------------------
\* the step is a request of the page loop that fails
FailedRequest == \E shape \in Shapes : PageRequest(FALSE, shape)

\* C18  A remote call that fails is fatal to the whole fetch_daily_data
\* invocation: the error propagates (the invocation is in its raised state,
\* with nothing written by the failing step and the frames of the stations
\* read so far still only in the local list), the call is never retried and
\* no further block or station is processed (the only step of a raised
\* invocation is its end, with the store, the log and the number of remote
\* calls untouched), and no dataset is returned (a raised invocation never
\* becomes a returned one).
C18_RemoteFailureIsFatal ==
    [][/\ FailedRequest =>
             /\ pc' = "raised"
             /\ store' = store
             /\ <<idx', bi', blocks', all_dfs'>> = <<idx, bi, blocks, all_dfs>>
       /\ (pc = "raised") =>
             /\ pc' = "idle"
             /\ store' = store
             /\ calls' <= calls
             /\ all_dfs' = <<>>]_vars

\* the request for the second station failed after the first station was
\* completed with observations, in the first of several blocks
C18_Witness ==
    /\ pc = "raised"
    /\ idx = 2
    /\ Len(all_dfs) = 1
    /\ all_dfs[1] # <<>>
    /\ bi < Len(blocks)

\* ------------------------------------------------------------------------
\* The requested range never passes today (Spec)
\* ------------------------------------------------------------------------
Earlier(a, b) == IF DateLe(a, b) THEN a ELSE b

\* a block is being fetched, saved or logged
InBlock == pc \in {"page", "persist", "log"}

\* C19  fetch_daily_data never asks for a date after today: the requested
\* end date is the earlier of Dec 31 of end_year and today (today when no
\* end year is given), every block it fetches lies within
\* [Jan 1 of start_year, that clamped end date], and when start_year lies
\* after today no remote call is made.
C19_NeverAsksPastToday ==
    (pc # "idle") =>
       /\ req.req_end = IF req.end_year = None THEN today
                        ELSE Earlier(<<req.end_year[1], 12, 31>>, today)
       /\ DateLe(req.req_end, today)
       /\ InBlock => blocks # <<>>
       /\ \A i \in 1..Len(blocks) :
             /\ DateLe(<<req.start_year, 1, 1>>, blocks[i][1])
             /\ DateLe(blocks[i][1], blocks[i][2])
             /\ DateLe(blocks[i][2], req.req_end)
       /\ ~DateLe(<<req.start_year, 1, 1>>, today) =>
             /\ ~InBlock
             /\ pc # "raised"
             /\ calls = 0
             /\ blocks = <<>>

\* the end year given ends after today: the end is cut to today and the
\* block being fetched ends on that day
C19_Witness ==
    /\ pc = "page"
    /\ req.end_year = Some(BaseYear)
    /\ req.req_end = today
    /\ req.req_end # <<BaseYear, 12, 31>>
    /\ blocks[bi][2] = today
    /\ calls = 0

\* ------------------------------------------------------------------------
\* The trend line (SpecTrend)
\* ------------------------------------------------------------------------
\* C20  calculate_trendline(x, y) returns None when fewer than two (x, y)
\* pairs have a non-None y or when x and y differ in length; otherwise it
\* returns a list with exactly one trend value per element of x, including
\* the positions whose y is None.
C20_NoneOrOneValuePerX ==
    (last_call.op = "calculate_trendline") =>
       LET x == last_call.x
           y == last_call.y
           r == last_call.result
           with_y == {i \in 1..Len(y) : i <= Len(x) /\ y[i] # None}
       IN  IF Len(x) # Len(y) \/ Cardinality(with_y) < 2
           THEN r.kind = "None"
           ELSE /\ r.kind = "list"
                /\ Len(r.value) = Len(x)
                /\ \A i \in 1..Len(x) : IsNumber(r.value[i])

\* ------------------------------------------------------------------------
\* The anomaly columns (SpecAnomaly)
\* ------------------------------------------------------------------------
\* two fractions are the same number
FracEq(a, b) == IsNumber(a) /\ IsNumber(b) /\ a[1] * b[2] = b[1] * a[2]

\* two column values are both null or the same number
SameValue(a, b) ==
    IF a = None \/ b = None THEN a = b ELSE FracEq(a[1], b[1])

\* no trendline can be computed for the frame: fewer than two rows have an avg
NoTrendline(stats) ==
    Cardinality({i \in 1..Len(stats) : stats[i].avg # None}) < 2

PageStep == calls' = calls + 1

\* C22  While fetching a block, the first page is requested at offset 0 and
\* each later page at an offset equal to the sum of numberReturned of all
\* earlier pages of that block; after a page the loop stops exactly when the
\* page has no features, numberReturned is 0, or the new offset has reached
\* numberMatched, and every feature of every received page is accumulated
\* for the block.
C22_OffsetsAndStop ==
    [][PageStep =>
         LET h == last_call'
         IN  /\ h.op = "session.get"
             /\ h.offset = h.returned_before
             /\ (station_data = <<>> /\ offset = 0 /\ h.returned_before = 0)
                   \/ (last_call.op = "session.get" /\ last_call.block = h.block)
             /\ h.ok =>
                   /\ (pc' # "page") <=>
                         \/ h.data.features = <<>>
                         \/ h.data.numberReturned = 0
                         \/ h.offset + h.data.numberReturned >= h.data.numberMatched
                   /\ station_data' = station_data \o h.data.features]_vars

\* a third page was requested at the offset the first two pages reported
\* (1 and 1) with the three records they carried accumulated, and it ended
\* the loop
C22_Witness ==
    /\ last_call.op = "session.get"
    /\ last_call.ok
    /\ last_call.offset = 2
    /\ last_call.returned_before = 2
    /\ last_call.data.numberMatched = 3
    /\ Len(last_call.data.features) = 1
    /\ Len(station_data) = 4
    /\ pc = "persist"

\* C23  The pagination loop of _fetch_and_cache_block terminates for every
\* sequence of server responses in which numberMatched is bounded: each
\* iteration either stops or strictly increases the offset (which stays
\* below the numberMatched just reported), so the block always reaches its
\* persist-and-log step unless a request fails.
C23_PageLoopTerminates ==
    /\ [][(PageStep /\ pc' = "page") =>
             /\ offset' > offset
             /\ offset' < last_call'.data.numberMatched
             /\ offset' < MaxMatched]_vars
    /\ (pc = "page") ~> (pc \in {"persist", "log", "raised"})

\* the loop went round twice and is about to send its third request
C23_Witness ==
    /\ pc = "page"
    /\ offset = 2
    /\ Len(station_data) >= 2
    /\ last_call.op = "session.get"
    /\ last_call.offset = 1

\* ------------------------------------------------------------------------
\* The order of the work within an invocation (SpecFail)
\* ------------------------------------------------------------------------
\* the blocks are apart and in ascending date order
Ascending(bs) ==
    \A i \in 1..Len(bs) : \A j \in 1..Len(bs) :
       i < j => /\ DateLe(bs[i][2], bs[j][1])
                /\ bs[i][2] # bs[j][1]

\* C24  Within one invocation stations are processed one at a time in
\* request order; a station's gaps are resolved once, before its first
\* fetch, and its blocks are fetched in ascending date order, each block's
\* persist-and-log step completing before the first page request of the next
\* block; the dataset is returned only after every block of every station
\* has completed.
C24_OneStationOneBlockAtATime ==
    [][(pc # "idle" /\ pc' # "idle") =>
         \* the station index moves by one, after the station was read
         /\ idx' # idx => (idx' = idx + 1 /\ pc = "read" /\ pc' = "resolve")
         /\ Len(all_dfs') = (IF pc = "read" THEN idx ELSE idx - 1)
         /\ Len(all_dfs) = idx - 1
         \* gaps are resolved at the top of the station, and only there
         /\ blocks' # blocks => pc = "resolve"
         /\ (pc = "resolve") => (pc' \in {"page", "read"} /\ Ascending(blocks'))
         /\ (pc' = "page" /\ pc # "page") =>
               \/ pc = "resolve" /\ bi' = 1 /\ blocks' # <<>>
               \/ pc = "log" /\ bi' = bi + 1 /\ bi' <= Len(blocks)
         \* the first request of a block follows the log step of the one before
         /\ bi' # bi => /\ pc \in {"resolve", "log"}
                        /\ offset' = 0
                        /\ station_data' = <<>>
         /\ (pc = "log" /\ Known(Sid)) =>
               Len(station_requests') = Len(station_requests) + 1
         /\ pc' = "log" =>
               \/ pc = "persist" /\ station_data # <<>>
               \/ pc = "page" /\ station_data' = <<>>
         /\ pc' = "persist" => (pc = "page" /\ station_data' # <<>>)
         \* a station is read after its last block, the dataset returned
         \* after the last station
         /\ (pc' = "read") =>
               \/ pc = "resolve" /\ blocks' = <<>>
               \/ pc = "log" /\ bi = Len(blocks)
         /\ (pc' = "returned") =>
               /\ pc = "read"
               /\ idx = Len(req.station_ids)
               /\ Len(all_dfs') = Len(req.station_ids)]_vars

\* the second block of the second station is being requested: the first
\* station has been read and the first block of this one is logged
C24_Witness ==
    /\ pc = "page"
    /\ idx = 2
    /\ bi = 2
    /\ Len(blocks) = 2
    /\ Len(all_dfs) = 1
    /\ \E i \in 1..Len(station_requests) :
          /\ station_requests[i].station_key = KeyOf(Sid)
          /\ station_requests[i].start_date = Some(DateInt(blocks[1][1]))
          /\ station_requests[i].end_date = Some(DateInt(blocks[1][2]))

\* ------------------------------------------------------------------------
\* The reads (SpecFail)
\* ------------------------------------------------------------------------
\* C25  Gap resolution and the read operations are side-effect free:
\* _get_missing_blocks (with the get_existing_dates and get_station_requests
\* calls it makes) and get_cached_daily leave the stations, daily_data and
\* station_requests contents unchanged, and calling _get_missing_blocks
\* again on the store it left gives the same blocks.
C25_ReadsLeaveStoreUnchanged ==
    [][/\ (pc = "resolve") =>
             /\ store' = store
             /\ blocks' = get_missing_blocks(stations', daily_data', station_requests',
                                             Sid, req.req_start, req.req_end)
       /\ (pc = "read") =>
             /\ store' = store
             /\ all_dfs'[Len(all_dfs')] =
                   get_cached_daily(stations', daily_data', Sid, req.start_year,
                                    req.req_end[1])]_vars

\* gaps were resolved on a store that holds observations and log entries,
\* and two blocks were found
C25_Witness ==
    /\ pc = "page"
    /\ bi = 1
    /\ calls = 0
    /\ Len(blocks) = 2
    /\ daily_data # <<>>
    /\ station_requests # <<>>

\* ------------------------------------------------------------------------
\* The transaction of save_daily (SpecTxn)
\* ------------------------------------------------------------------------
\* C26  Each save_daily call is one atomic multi-row write: what a reader of
\* the store sees changes only from the state without any row of the call
\* to the state with all of its rows (across all station groups in it), in
\* the one step that ends the call, and if the call fails or is stopped
\* part-way no row of that call is persisted.
C26_SaveDailyAtomic ==
    [][/\ daily_data' # daily_data =>
             /\ pc = "saving"
             /\ pc' = "idle"
             /\ txn.rows = <<>>
             /\ daily_data' = InsertAll(daily_data, RowsToInsert(stations, txn.df))
             /\ ~save_daily_raises(stations, txn.df)
       /\ (pc = "saving" /\ pc' = "saving") => daily_data' = daily_data
       /\ (pc = "saving" /\ pc' = "idle" /\ txn.rows # <<>>) =>
             daily_data' = daily_data]_vars

\* part-way through a call on two station groups: the row of the first
\* group is in the connection's view and not in the store, the row of the
\* second group is still to be inserted
C26_Witness ==
    /\ pc = "saving"
    /\ Len(txn.df) = 2
    /\ Len(txn.rows) = 1
    /\ txn.work # daily_data
    /\ Len(txn.work) = Len(daily_data) + 1

\* ------------------------------------------------------------------------
\* Observations before the log entry (SpecCrash)
\* ------------------------------------------------------------------------
\* the record is in daily_data as save_daily stores it
Stored(rec) ==
    /\ Known(rec.station_id)
    /\ \E i \in 1..Len(daily_data) :
          LET r == RowToInsert(KeyOf(rec.station_id), rec)
          IN  r.date # None /\ daily_data[i] = [r EXCEPT !.date = r.date[1]]

\* observations of the station of the entry lie in the range of the entry
HasRowsIn(e) ==
    \E i \in 1..Len(daily_data) :
       /\ daily_data[i].station_key = e.station_key
       /\ e.start_date[1] <= daily_data[i].date
       /\ daily_data[i].date <= e.end_date[1]

\* C27  A block's observations are committed before its SUCCESS log entry is
\* appended, in two separate steps: the step that appends a SUCCESS entry
\* finds every record fetched for the block stored and writes no
\* observation itself, and in every reachable state, including after an
\* interruption between the two steps, a SUCCESS entry comes with stored
\* observations in its range.  (That the rows are stored while the block is
\* not yet logged is the witness.)
C27_RowsBeforeSuccessEntry ==
    /\ [][(Len(station_requests') > Len(station_requests)
            /\ station_requests'[Len(station_requests')].status = "SUCCESS") =>
             /\ pc = "log"
             /\ station_data # <<>>
             /\ \A i \in 1..Len(station_data) : Stored(station_data[i])
             /\ daily_data' = daily_data]_vars
    /\ [](\A i \in 1..Len(station_requests) :
             station_requests[i].status = "SUCCESS" => HasRowsIn(station_requests[i]))

\* the invocation was stopped between the two steps: the observations of
\* the first block of S1 are stored and no entry says so
C27_Witness ==
    /\ pc = "idle"
    /\ daily_data # <<>>
    /\ \A i \in 1..Len(daily_data) : daily_data[i].station_key = KeyOf("S1")
    /\ \A i \in 1..Len(station_requests) : station_requests[i].status = "EMPTY"
    /\ station_requests # <<>>

\* ------------------------------------------------------------------------
\* What a failed page request leaves behind (SpecFail)
\* ------------------------------------------------------------------------
\* the gap blocks an invocation over the range of the running one would
\* resolve for the station from the present store
MissingNow(sid) ==
    get_missing_blocks(stations, daily_data, station_requests, sid,
                       req.req_start, req.req_end)

\* the request log holds an entry of the station for exactly the block
LoggedExactly(sid, b) ==
    \E i \in 1..Len(station_requests) :
       /\ station_requests[i].station_key = KeyOf(sid)
       /\ station_requests[i].start_date = Some(DateInt(b[1]))
       /\ station_requests[i].end_date = Some(DateInt(b[2]))

\* the claim as stated, for every station: after the failure the blocks
\* before the failing one and all blocks of the earlier stations are
\* persisted and logged, and only the blocks that did not complete are gaps
C28_FailureKeepsEveryCompletedBlock ==
    pc = "raised" =>
       /\ MissingNow(Sid) = SubSeq(blocks, bi, Len(blocks))
       /\ \A k \in 1..(idx - 1) : MissingNow(req.station_ids[k]) = <<>>

\* C28  If a page request fails while block i of a station is being
\* fetched, nothing of block i is persisted or logged (the failing step
\* writes nothing, and the pages already received are dropped with the
\* invocation), while the blocks before i of that station and all blocks of
\* the earlier stations that were saved through save_stations remain
\* persisted and logged; an invocation over the same range made from this
\* store resolves for the failing station exactly the blocks from i on and
\* no gap for an earlier saved station.
C28_FailureKeepsCompletedBlocks ==
    /\ [][FailedRequest => (store' = store /\ pc' = "raised")]_vars
    /\ [][(pc = "raised") => (station_data' = <<>> /\ store' = store)]_vars
    /\ [](pc = "raised" =>
            /\ MissingNow(Sid) = SubSeq(blocks, bi, Len(blocks))
            /\ Known(Sid) => \A j \in 1..(bi - 1) : LoggedExactly(Sid, blocks[j])
            /\ \A k \in 1..(idx - 1) :
                  Known(req.station_ids[k]) => MissingNow(req.station_ids[k]) = <<>>)

\* the request for the second block of the second station failed: the
\* first block and the first station are done
C28_Witness ==
    /\ pc = "raised"
    /\ idx = 2
    /\ bi = 2
    /\ daily_data # <<>>
    /\ Known(Sid)
    /\ Known(req.station_ids[1])
    /\ LoggedExactly(Sid, blocks[1])
    /\ ~LoggedExactly(Sid, blocks[2])

\* ------------------------------------------------------------------------
\* Satisfied dates never shrink (SpecCrash)
\* ------------------------------------------------------------------------
\* the dates inside a list of blocks
DatesIn(bs) ==
    UNION {{DatesFrom(bs[j][1], bs[j][2])[n] :
              n \in 1..Len(DatesFrom(bs[j][1], bs[j][2]))} : j \in 1..Len(bs)}

\* the dates inside the gap blocks _get_missing_blocks returns for the
\* station over the first LastDay days of the year, from the given tables
MissingIn(st, dd, sr, sid) ==
    DatesIn(get_missing_blocks(st, dd, sr, sid, <<BaseYear, 1, 1>>,
                               <<BaseYear, 1, LastDay>>))

\* the claim as stated, for a date "once fetched": after the blocks of a
\* station have been fetched to the end, none of their dates is inside a gap
\* block of the station again
C29_FetchedNeverFetchedAgain ==
    pc = "read" => DatesIn(blocks) \cap DatesIn(MissingNow(Sid)) = {}

\* C29  Over any sequence of ClimateCache and MSCClient operations the set
\* of dates the gap resolver treats as satisfied for a station never
\* shrinks: no step deletes an observation row or a log entry or changes
\* the key of a station, for a fixed station and range the set of dates
\* inside the returned gap blocks is non-increasing, and every block that is
\* requested remotely is, at the time of the request, a gap block of the
\* station: a date once stored or logged is never fetched again.
C29_SatisfiedNeverShrinks ==
    /\ [][store' # store =>
            /\ \A i \in 1..Len(daily_data) : \E j \in 1..Len(daily_data') :
                  /\ daily_data'[j].station_key = daily_data[i].station_key
                  /\ daily_data'[j].date = daily_data[i].date
            /\ Len(station_requests') >= Len(station_requests)
            /\ SubSeq(station_requests', 1, Len(station_requests)) = station_requests
            /\ \A sid \in StationIds :
                  /\ Known(sid) => get_station_key(stations', sid) = Some(KeyOf(sid))
                  /\ MissingIn(stations', daily_data', station_requests', sid)
                       \subseteq MissingIn(stations, daily_data, station_requests, sid)]_vars
    /\ [](pc = "page" =>
            \E j \in 1..Len(MissingNow(Sid)) : MissingNow(Sid)[j] = blocks[bi])

\* an invocation stopped after the rows of S2 were stored and before the
\* block was logged is followed by one that fetches only the dates between
\* the stored ones, in two gap blocks
C29_Witness ==
    /\ pc = "page"
    /\ bi = 1
    /\ Len(blocks) = 2
    /\ Known(Sid)
    /\ RowsOf(Sid) # {}
    /\ \A i \in 1..Len(station_requests) : station_requests[i].station_key # KeyOf(Sid)

\* ------------------------------------------------------------------------
\* A station that was never saved (SpecLog)
\* ------------------------------------------------------------------------
\* the requested range as one block
WholeRange == <<<<req.req_start, req.req_end>>>>

\* C30  For a station identifier that was never saved through save_stations,
\* fetch_daily_data still performs the remote fetch of the whole requested
\* range (gap resolution yields the range as one block and goes on to the
\* page requests), persists no observation and appends no log entry (no step
\* of the station's pass changes the store), returns no rows for that
\* station (the frame appended for it is empty), and every later identical
\* request computes the same single gap block and fetches it again (during
\* and after the pass the gap blocks of the station over the range are
\* still the one block).
C30_UnsavedStationFetchedEveryTime ==
    /\ [][(pc # "idle" /\ ~Known(Sid)) =>
            /\ store' = store
            /\ pc = "resolve" => (blocks' = WholeRange /\ pc' = "page" /\ bi' = 1)
            /\ pc = "page" => calls' = calls + 1
            /\ pc = "read" => all_dfs' = Append(all_dfs, <<>>)]_vars
    /\ [](pc \in {"page", "persist", "log", "read"} /\ ~Known(Sid) =>
            /\ blocks = WholeRange
            /\ MissingNow(Sid) = WholeRange)
    /\ [](pc = "returned" =>
            \A k \in 1..Len(req.station_ids) :
               ~Known(req.station_ids[k]) =>
                  /\ all_dfs[k] = <<>>
                  /\ MissingNow(req.station_ids[k]) = WholeRange)

\* the pass over S2, never saved, has fetched records in more than one page
\* and reached the final read with an empty store
C30_Witness ==
    /\ pc = "read"
    /\ ~Known(Sid)
    /\ station_data # <<>>
    /\ calls >= 2
    /\ daily_data = <<>>
    /\ station_requests = <<>>

====
